---------------------------- MODULE Spec2Model ----------------------------
(***************************************************************************)
(* A model of sysstat's PCP bridge: the metric catalogs and definition     *)
(* routines of pcp_def_metrics.c (with pcp_def_metrics.h) and the          *)
(* per-sample writers and readers of pcp_stats.c.                          *)
(*                                                                         *)
(* Values of an archive are naturals.  For a metric of floating type the   *)
(* natural is the value in hundredths (250 stands for 2.50).               *)
(***************************************************************************)
EXTENDS Integers, Sequences, FiniteSets, TLC

(***************************************************************************)
(* Bounds of the model.                                                    *)
(***************************************************************************)
MaxNumval == 2      \* largest number of values in one imported value set
MaxSamples == 2     \* samples processed in one session
MaxImports == 3     \* value sets imported in one session
MaxCpu == 2         \* CPUs of the machine (the bitmap covers "all" + MaxCpu)
MaxAlloc == 4       \* largest capacity reallocate_buffers may choose
MaxExtra == 1       \* how far past a catalog's count a local index is drawn
MaxOver == 2        \* how far past the largest value of a field of an identifier the inputs go

(***************************************************************************)
(* Identifier codec (pcp_def_metrics.h).                                   *)
(***************************************************************************)
Pow2(n) == 2 ^ n

\* x & (2^bits - 1) for a natural x
Mask(x, bits) == x % Pow2(bits)

\* PM_INDOM_NULL is 0xffffffff, written here as the same 32 bits read as a
\* signed integer.
PM_INDOM_NULL == -1

\* The null pointer left in a names[] slot that has no initialiser.
NULL_NAME == "(null)"

\* Marks, in the table of readers, a value taken from vlist[0] and not
\* selected by an instance number.
NO_INST == -2

\* A change of PMI_ID: the cluster is shifted by 9 bits.
PMI_ID_cluster_shifted_by_9(domain, cluster, item) ==
  Mask(domain, 9) * Pow2(22) + Mask(cluster, 12) * Pow2(9) + Mask(item, 10)

PMI_ID(domain, cluster, item) ==
  Mask(domain, 9) * Pow2(22) + Mask(cluster, 12) * Pow2(10) + Mask(item, 10)

PMI_INDOM(domain, serial) ==
  Mask(domain, 9) * Pow2(22) + Mask(serial, 22)

(***************************************************************************)
(* The catalogs, the identifiers and the tables of pcp_read_stats and of   *)
(* the readers, written out from pcp_def_metrics.c and pcp_stats.c.        *)
(***************************************************************************)
(* The PMID_* identifier macros of pcp_def_metrics.h, one field per macro. *)
PMIDS ==
  [ PMID_FILE_HEADER_CPU_COUNT |-> PMI_ID(60, 0, 32),
    PMID_FILE_HEADER_KERNEL_HERTZ |-> PMI_ID(60, 0, 48),
    PMID_FILE_HEADER_UNAME_RELEASE |-> PMI_ID(60, 12, 0),
    PMID_FILE_HEADER_UNAME_SYSNAME |-> PMI_ID(60, 12, 2),
    PMID_FILE_HEADER_UNAME_MACHINE |-> PMI_ID(60, 12, 3),
    PMID_FILE_HEADER_UNAME_NODENAME |-> PMI_ID(60, 12, 4),
    PMID_RECORD_HEADER_KERNEL_UPTIME |-> PMI_ID(60, 26, 0),
    PMID_CPU_ALLCPU_USER |-> PMI_ID(60, 0, 20),
    PMID_CPU_ALLCPU_NICE |-> PMI_ID(60, 0, 21),
    PMID_CPU_ALLCPU_SYS |-> PMI_ID(60, 0, 22),
    PMID_CPU_ALLCPU_IDLE |-> PMI_ID(60, 0, 23),
    PMID_CPU_ALLCPU_WAITTOTAL |-> PMI_ID(60, 0, 35),
    PMID_CPU_ALLCPU_IRQTOTAL |-> PMI_ID(60, 0, 34),
    PMID_CPU_ALLCPU_IRQSOFT |-> PMI_ID(60, 0, 53),
    PMID_CPU_ALLCPU_IRQHARD |-> PMI_ID(60, 0, 54),
    PMID_CPU_ALLCPU_STEAL |-> PMI_ID(60, 0, 55),
    PMID_CPU_ALLCPU_GUEST |-> PMI_ID(60, 0, 60),
    PMID_CPU_ALLCPU_GUESTNICE |-> PMI_ID(60, 0, 81),
    PMID_CPU_PERCPU_USER |-> PMI_ID(60, 0, 0),
    PMID_CPU_PERCPU_NICE |-> PMI_ID(60, 0, 1),
    PMID_CPU_PERCPU_SYS |-> PMI_ID(60, 0, 2),
    PMID_CPU_PERCPU_IDLE |-> PMI_ID(60, 0, 3),
    PMID_CPU_PERCPU_WAITTOTAL |-> PMI_ID(60, 0, 30),
    PMID_CPU_PERCPU_IRQTOTAL |-> PMI_ID(60, 0, 31),
    PMID_CPU_PERCPU_IRQSOFT |-> PMI_ID(60, 0, 56),
    PMID_CPU_PERCPU_IRQHARD |-> PMI_ID(60, 0, 57),
    PMID_CPU_PERCPU_STEAL |-> PMI_ID(60, 0, 58),
    PMID_CPU_PERCPU_GUEST |-> PMI_ID(60, 0, 61),
    PMID_CPU_PERCPU_GUESTNICE |-> PMI_ID(60, 0, 83),
    PMID_CPU_PERCPU_INTERRUPTS |-> PMI_ID(60, 4, 1),
    PMID_SOFTNET_ALLCPU_PROCESSED |-> PMI_ID(60, 57, 0),
    PMID_SOFTNET_ALLCPU_DROPPED |-> PMI_ID(60, 57, 1),
    PMID_SOFTNET_ALLCPU_TIMESQUEEZE |-> PMI_ID(60, 57, 2),
    PMID_SOFTNET_ALLCPU_RECEIVEDRPS |-> PMI_ID(60, 57, 4),
    PMID_SOFTNET_ALLCPU_FLOWLIMIT |-> PMI_ID(60, 57, 5),
    PMID_SOFTNET_ALLCPU_BACKLOGLENGTH |-> PMI_ID(60, 57, 12),
    PMID_SOFTNET_PERCPU_PROCESSED |-> PMI_ID(60, 57, 6),
    PMID_SOFTNET_PERCPU_DROPPED |-> PMI_ID(60, 57, 7),
    PMID_SOFTNET_PERCPU_TIMESQUEEZE |-> PMI_ID(60, 57, 8),
    PMID_SOFTNET_PERCPU_RECEIVEDRPS |-> PMI_ID(60, 57, 10),
    PMID_SOFTNET_PERCPU_FLOWLIMIT |-> PMI_ID(60, 57, 11),
    PMID_SOFTNET_PERCPU_BACKLOGLENGTH |-> PMI_ID(60, 57, 13),
    PMID_POWER_PERCPU_CLOCK |-> PMI_ID(60, 18, 0),
    PMID_PCSW_CONTEXT_SWITCH |-> PMI_ID(60, 0, 13),
    PMID_PCSW_FORK_SYSCALLS |-> PMI_ID(60, 0, 14),
    PMID_IRQ_ALLIRQ_TOTAL |-> PMI_ID(60, 0, 12),
    PMID_IRQ_PERIRQ_TOTAL |-> PMI_ID(60, 4, 0),
    PMID_SWAP_PAGESIN |-> PMI_ID(60, 0, 8),
    PMID_SWAP_PAGESOUT |-> PMI_ID(60, 0, 9),
    PMID_PAGING_PGPGIN |-> PMI_ID(60, 28, 6),
    PMID_PAGING_PGPGOUT |-> PMI_ID(60, 28, 7),
    PMID_PAGING_PGFAULT |-> PMI_ID(60, 28, 16),
    PMID_PAGING_PGMAJFAULT |-> PMI_ID(60, 28, 17),
    PMID_PAGING_PGFREE |-> PMI_ID(60, 28, 13),
    PMID_PAGING_PGSCANDIRECT |-> PMI_ID(60, 28, 176),
    PMID_PAGING_PGSCANKSWAPD |-> PMI_ID(60, 28, 177),
    PMID_PAGING_PGSTEAL |-> PMI_ID(60, 28, 178),
    PMID_PAGING_PGDEMOTE |-> PMI_ID(60, 28, 185),
    PMID_PAGING_PGPROMOTE |-> PMI_ID(60, 28, 187),
    PMID_IO_ALLDEV_TOTAL |-> PMI_ID(60, 0, 29),
    PMID_IO_ALLDEV_READ |-> PMI_ID(60, 0, 24),
    PMID_IO_ALLDEV_WRITE |-> PMI_ID(60, 0, 25),
    PMID_IO_ALLDEV_DISCARD |-> PMI_ID(60, 0, 96),
    PMID_IO_ALLDEV_READBYTES |-> PMI_ID(60, 0, 41),
    PMID_IO_ALLDEV_WRITEBYTES |-> PMI_ID(60, 0, 42),
    PMID_IO_ALLDEV_DISCARDBYTES |-> PMI_ID(60, 0, 98),
    PMID_MEM_PHYS_MB |-> PMI_ID(60, 1, 9),
    PMID_MEM_PHYS_KB |-> PMI_ID(60, 1, 0),
    PMID_MEM_UTIL_FREE |-> PMI_ID(60, 1, 2),
    PMID_MEM_UTIL_AVAIL |-> PMI_ID(60, 1, 58),
    PMID_MEM_UTIL_USED |-> PMI_ID(60, 1, 1),
    PMID_MEM_UTIL_BUFFER |-> PMI_ID(60, 1, 4),
    PMID_MEM_UTIL_CACHED |-> PMI_ID(60, 1, 5),
    PMID_MEM_UTIL_COMMITAS |-> PMI_ID(60, 1, 26),
    PMID_MEM_UTIL_ACTIVE |-> PMI_ID(60, 1, 14),
    PMID_MEM_UTIL_INACTIVE |-> PMI_ID(60, 1, 15),
    PMID_MEM_UTIL_DIRTY |-> PMI_ID(60, 1, 22),
    PMID_MEM_UTIL_ANON |-> PMI_ID(60, 1, 30),
    PMID_MEM_UTIL_SLAB |-> PMI_ID(60, 1, 25),
    PMID_MEM_UTIL_KSTACK |-> PMI_ID(60, 1, 43),
    PMID_MEM_UTIL_PGTABLE |-> PMI_ID(60, 1, 27),
    PMID_MEM_UTIL_VMALLOC |-> PMI_ID(60, 1, 51),
    PMID_MEM_UTIL_SWAPFREE |-> PMI_ID(60, 1, 21),
    PMID_MEM_UTIL_SWAPTOTAL |-> PMI_ID(60, 1, 20),
    PMID_MEM_UTIL_SWAPCACHED |-> PMI_ID(60, 1, 13),
    PMID_KTABLE_DENTRYS |-> PMI_ID(60, 27, 5),
    PMID_KTABLE_FILES |-> PMI_ID(60, 27, 0),
    PMID_KTABLE_INODES |-> PMI_ID(60, 27, 3),
    PMID_KTABLE_PTYS |-> PMI_ID(60, 72, 3),
    PMID_KQUEUE_RUNNABLE |-> PMI_ID(60, 2, 2),
    PMID_KQUEUE_PROCESSES |-> PMI_ID(60, 2, 3),
    PMID_KQUEUE_BLOCKED |-> PMI_ID(60, 0, 16),
    PMID_KQUEUE_LOADAVG |-> PMI_ID(60, 2, 0),
    PMID_DISK_PERDEV_READ |-> PMI_ID(60, 0, 4),
    PMID_DISK_PERDEV_WRITE |-> PMI_ID(60, 0, 5),
    PMID_DISK_PERDEV_TOTAL |-> PMI_ID(60, 0, 28),
    PMID_DISK_PERDEV_TOTALBYTES |-> PMI_ID(60, 0, 37),
    PMID_DISK_PERDEV_READBYTES |-> PMI_ID(60, 0, 38),
    PMID_DISK_PERDEV_WRITEBYTES |-> PMI_ID(60, 0, 39),
    PMID_DISK_PERDEV_DISCARDBYTES |-> PMI_ID(60, 0, 90),
    PMID_DISK_PERDEV_READACTIVE |-> PMI_ID(60, 0, 72),
    PMID_DISK_PERDEV_WRITEACTIVE |-> PMI_ID(60, 0, 73),
    PMID_DISK_PERDEV_TOTALACTIVE |-> PMI_ID(60, 0, 79),
    PMID_DISK_PERDEV_DISCARDACTIVE |-> PMI_ID(60, 0, 92),
    PMID_DISK_PERDEV_AVACTIVE |-> PMI_ID(60, 0, 46),
    PMID_DISK_PERDEV_AVQUEUE |-> PMI_ID(60, 0, 47),
    PMID_NET_PERINTF_INPACKETS |-> PMI_ID(60, 3, 1),
    PMID_NET_PERINTF_OUTPACKETS |-> PMI_ID(60, 3, 9),
    PMID_NET_PERINTF_INBYTES |-> PMI_ID(60, 3, 0),
    PMID_NET_PERINTF_OUTBYTES |-> PMI_ID(60, 3, 8),
    PMID_NET_PERINTF_INCOMPRESS |-> PMI_ID(60, 3, 6),
    PMID_NET_PERINTF_OUTCOMPRESS |-> PMI_ID(60, 3, 15),
    PMID_NET_PERINTF_INMULTICAST |-> PMI_ID(60, 3, 7),
    PMID_NET_EPERINTF_INERRORS |-> PMI_ID(60, 3, 2),
    PMID_NET_EPERINTF_OUTERRORS |-> PMI_ID(60, 3, 10),
    PMID_NET_EPERINTF_COLLISIONS |-> PMI_ID(60, 3, 13),
    PMID_NET_EPERINTF_INDROPS |-> PMI_ID(60, 3, 3),
    PMID_NET_EPERINTF_OUTDROPS |-> PMI_ID(60, 3, 11),
    PMID_NET_EPERINTF_OUTCARRIER |-> PMI_ID(60, 3, 14),
    PMID_NET_EPERINTF_INFRAME |-> PMI_ID(60, 3, 5),
    PMID_NET_EPERINTF_INFIFO |-> PMI_ID(60, 3, 4),
    PMID_NET_EPERINTF_OUTFIFO |-> PMI_ID(60, 3, 12),
    PMID_SERIAL_PERTTY_RX |-> PMI_ID(60, 74, 0),
    PMID_SERIAL_PERTTY_TX |-> PMI_ID(60, 74, 1),
    PMID_SERIAL_PERTTY_FRAME |-> PMI_ID(60, 74, 2),
    PMID_SERIAL_PERTTY_PARITY |-> PMI_ID(60, 74, 3),
    PMID_SERIAL_PERTTY_BRK |-> PMI_ID(60, 74, 4),
    PMID_SERIAL_PERTTY_OVERRUN |-> PMI_ID(60, 74, 5),
    PMID_SOCKET_TOTAL |-> PMI_ID(60, 11, 9),
    PMID_SOCKET_TCPINUSE |-> PMI_ID(60, 11, 0),
    PMID_SOCKET_UDPINUSE |-> PMI_ID(60, 11, 3),
    PMID_SOCKET_RAWINUSE |-> PMI_ID(60, 11, 6),
    PMID_SOCKET_FRAGINUSE |-> PMI_ID(60, 11, 15),
    PMID_SOCKET_TCPTW |-> PMI_ID(60, 11, 11),
    PMID_NET_IP_INRECEIVES |-> PMI_ID(60, 14, 2),
    PMID_NET_IP_FORWDATAGRAMS |-> PMI_ID(60, 14, 5),
    PMID_NET_IP_INDELIVERS |-> PMI_ID(60, 14, 8),
    PMID_NET_IP_OUTREQUESTS |-> PMI_ID(60, 14, 9),
    PMID_NET_IP_REASMREQDS |-> PMI_ID(60, 14, 13),
    PMID_NET_IP_REASMOKS |-> PMI_ID(60, 14, 14),
    PMID_NET_IP_FRAGOKS |-> PMI_ID(60, 14, 16),
    PMID_NET_IP_FRAGCREATES |-> PMI_ID(60, 14, 18),
    PMID_NET_EIP_INHDRERRORS |-> PMI_ID(60, 14, 3),
    PMID_NET_EIP_INADDRERRORS |-> PMI_ID(60, 14, 4),
    PMID_NET_EIP_INUNKNOWNPROTOS |-> PMI_ID(60, 14, 6),
    PMID_NET_EIP_INDISCARDS |-> PMI_ID(60, 14, 7),
    PMID_NET_EIP_OUTDISCARDS |-> PMI_ID(60, 14, 10),
    PMID_NET_EIP_OUTNOROUTES |-> PMI_ID(60, 14, 11),
    PMID_NET_EIP_REASMFAILS |-> PMI_ID(60, 14, 15),
    PMID_NET_EIP_FRAGFAILS |-> PMI_ID(60, 14, 17),
    PMID_NFSCLIENT_RPCCCNT |-> PMI_ID(60, 7, 20),
    PMID_NFSCLIENT_RPCRETRANS |-> PMI_ID(60, 7, 21),
    PMID_NFSCLIENT_REQUESTS |-> PMI_ID(60, 7, 4),
    PMID_NFSSERVER_RPCCNT |-> PMI_ID(60, 7, 30),
    PMID_NFSSERVER_RPCBADCLNT |-> PMI_ID(60, 7, 34),
    PMID_NFSSERVER_NETCNT |-> PMI_ID(60, 7, 44),
    PMID_NFSSERVER_NETUDPCNT |-> PMI_ID(60, 7, 45),
    PMID_NFSSERVER_NETTCPCNT |-> PMI_ID(60, 7, 46),
    PMID_NFSSERVER_RCHITS |-> PMI_ID(60, 7, 35),
    PMID_NFSSERVER_RCMISSES |-> PMI_ID(60, 7, 36),
    PMID_NFSSERVER_REQUESTS |-> PMI_ID(60, 7, 12),
    PMID_NET_ICMP_INMSGS |-> PMI_ID(60, 14, 20),
    PMID_NET_ICMP_OUTMSGS |-> PMI_ID(60, 14, 33),
    PMID_NET_ICMP_INECHOS |-> PMI_ID(60, 14, 27),
    PMID_NET_ICMP_INECHOREPS |-> PMI_ID(60, 14, 28),
    PMID_NET_ICMP_OUTECHOS |-> PMI_ID(60, 14, 40),
    PMID_NET_ICMP_OUTECHOREPS |-> PMI_ID(60, 14, 41),
    PMID_NET_ICMP_INTIMESTAMPS |-> PMI_ID(60, 14, 29),
    PMID_NET_ICMP_INTIMESTAMPREPS |-> PMI_ID(60, 14, 30),
    PMID_NET_ICMP_OUTTIMESTAMPS |-> PMI_ID(60, 14, 42),
    PMID_NET_ICMP_OUTTIMESTAMPREPS |-> PMI_ID(60, 14, 43),
    PMID_NET_ICMP_INADDRMASKS |-> PMI_ID(60, 14, 31),
    PMID_NET_ICMP_INADDRMASKREPS |-> PMI_ID(60, 14, 32),
    PMID_NET_ICMP_OUTADDRMASKS |-> PMI_ID(60, 14, 44),
    PMID_NET_ICMP_OUTADDRMASKREPS |-> PMI_ID(60, 14, 45),
    PMID_NET_EICMP_INERRORS |-> PMI_ID(60, 14, 21),
    PMID_NET_EICMP_OUTERRORS |-> PMI_ID(60, 14, 34),
    PMID_NET_EICMP_INDESTUNREACHS |-> PMI_ID(60, 14, 22),
    PMID_NET_EICMP_OUTDESTUNREACHS |-> PMI_ID(60, 14, 35),
    PMID_NET_EICMP_INTIMEEXCDS |-> PMI_ID(60, 14, 23),
    PMID_NET_EICMP_OUTTIMEEXCDS |-> PMI_ID(60, 14, 36),
    PMID_NET_EICMP_INPARMPROBS |-> PMI_ID(60, 14, 24),
    PMID_NET_EICMP_OUTPARMPROBS |-> PMI_ID(60, 14, 37),
    PMID_NET_EICMP_INSRCQUENCHS |-> PMI_ID(60, 14, 25),
    PMID_NET_EICMP_OUTSRCQUENCHS |-> PMI_ID(60, 14, 38),
    PMID_NET_EICMP_INREDIRECTS |-> PMI_ID(60, 14, 26),
    PMID_NET_EICMP_OUTREDIRECTS |-> PMI_ID(60, 14, 39),
    PMID_NET_TCP_ACTIVEOPENS |-> PMI_ID(60, 14, 54),
    PMID_NET_TCP_PASSIVEOPENS |-> PMI_ID(60, 14, 55),
    PMID_NET_TCP_INSEGS |-> PMI_ID(60, 14, 59),
    PMID_NET_TCP_OUTSEGS |-> PMI_ID(60, 14, 60),
    PMID_NET_ETCP_ATTEMPTFAILS |-> PMI_ID(60, 14, 56),
    PMID_NET_ETCP_ESTABRESETS |-> PMI_ID(60, 14, 57),
    PMID_NET_ETCP_RETRANSSEGS |-> PMI_ID(60, 14, 61),
    PMID_NET_ETCP_INERRS |-> PMI_ID(60, 14, 62),
    PMID_NET_ETCP_OUTRSTS |-> PMI_ID(60, 14, 63),
    PMID_NET_UDP_INDATAGRAMS |-> PMI_ID(60, 14, 70),
    PMID_NET_UDP_OUTDATAGRAMS |-> PMI_ID(60, 14, 74),
    PMID_NET_UDP_NOPORTS |-> PMI_ID(60, 14, 71),
    PMID_NET_UDP_INERRORS |-> PMI_ID(60, 14, 72),
    PMID_NET_SOCK6_TCPINUSE |-> PMI_ID(60, 73, 0),
    PMID_NET_SOCK6_UDPINUSE |-> PMI_ID(60, 73, 1),
    PMID_NET_SOCK6_RAWINUSE |-> PMI_ID(60, 73, 3),
    PMID_NET_SOCK6_FRAGINUSE |-> PMI_ID(60, 73, 4),
    PMID_NET_IP6_INRECEIVES |-> PMI_ID(60, 58, 0),
    PMID_NET_IP6_OUTFORWDATAGRAMS |-> PMI_ID(60, 58, 9),
    PMID_NET_IP6_INDELIVERS |-> PMI_ID(60, 58, 8),
    PMID_NET_IP6_OUTREQUESTS |-> PMI_ID(60, 58, 10),
    PMID_NET_IP6_REASMREQDS |-> PMI_ID(60, 58, 14),
    PMID_NET_IP6_REASMOKS |-> PMI_ID(60, 58, 15),
    PMID_NET_IP6_INMCASTPKTS |-> PMI_ID(60, 58, 20),
    PMID_NET_IP6_OUTMCASTPKTS |-> PMI_ID(60, 58, 21),
    PMID_NET_IP6_FRAGOKS |-> PMI_ID(60, 58, 17),
    PMID_NET_IP6_FRAGCREATES |-> PMI_ID(60, 58, 19),
    PMID_NET_EIP6_INHDRERRORS |-> PMI_ID(60, 58, 1),
    PMID_NET_EIP6_INADDRERRORS |-> PMI_ID(60, 58, 4),
    PMID_NET_EIP6_INUNKNOWNPROTOS |-> PMI_ID(60, 58, 5),
    PMID_NET_EIP6_INTOOBIGERRORS |-> PMI_ID(60, 58, 2),
    PMID_NET_EIP6_INDISCARDS |-> PMI_ID(60, 58, 7),
    PMID_NET_EIP6_OUTDISCARDS |-> PMI_ID(60, 58, 11),
    PMID_NET_EIP6_INNOROUTES |-> PMI_ID(60, 58, 3),
    PMID_NET_EIP6_OUTNOROUTES |-> PMI_ID(60, 58, 12),
    PMID_NET_EIP6_REASMFAILS |-> PMI_ID(60, 58, 16),
    PMID_NET_EIP6_FRAGFAILS |-> PMI_ID(60, 58, 18),
    PMID_NET_EIP6_INTRUNCATEDPKTS |-> PMI_ID(60, 58, 6),
    PMID_NET_ICMP6_INMSGS |-> PMI_ID(60, 58, 32),
    PMID_NET_ICMP6_OUTMSGS |-> PMI_ID(60, 58, 34),
    PMID_NET_ICMP6_INECHOS |-> PMI_ID(60, 58, 41),
    PMID_NET_ICMP6_INECHOREPLIES |-> PMI_ID(60, 58, 42),
    PMID_NET_ICMP6_OUTECHOREPLIES |-> PMI_ID(60, 58, 57),
    PMID_NET_ICMP6_INGROUPMEMBQUERIES |-> PMI_ID(60, 58, 43),
    PMID_NET_ICMP6_INGROUPMEMBRESPONSES |-> PMI_ID(60, 58, 44),
    PMID_NET_ICMP6_OUTGROUPMEMBRESPONSES |-> PMI_ID(60, 58, 59),
    PMID_NET_ICMP6_INGROUPMEMBREDUCTIONS |-> PMI_ID(60, 58, 45),
    PMID_NET_ICMP6_OUTGROUPMEMBREDUCTIONS |-> PMI_ID(60, 58, 60),
    PMID_NET_ICMP6_INROUTERSOLICITS |-> PMI_ID(60, 58, 46),
    PMID_NET_ICMP6_OUTROUTERSOLICITS |-> PMI_ID(60, 58, 61),
    PMID_NET_ICMP6_INROUTERADVERTISEMENTS |-> PMI_ID(60, 58, 47),
    PMID_NET_ICMP6_INNEIGHBORSOLICITS |-> PMI_ID(60, 58, 48),
    PMID_NET_ICMP6_OUTNEIGHBORSOLICITS |-> PMI_ID(60, 58, 63),
    PMID_NET_ICMP6_INNEIGHBORADVERTISEMENTS |-> PMI_ID(60, 58, 49),
    PMID_NET_ICMP6_OUTNEIGHBORADVERTISEMENTS |-> PMI_ID(60, 58, 64),
    PMID_NET_EICMP6_INERRORS |-> PMI_ID(60, 58, 33),
    PMID_NET_EICMP6_INDESTUNREACHS |-> PMI_ID(60, 58, 37),
    PMID_NET_EICMP6_OUTDESTUNREACHS |-> PMI_ID(60, 58, 52),
    PMID_NET_EICMP6_INTIMEEXCDS |-> PMI_ID(60, 58, 39),
    PMID_NET_EICMP6_OUTTIMEEXCDS |-> PMI_ID(60, 58, 54),
    PMID_NET_EICMP6_INPARMPROBLEMS |-> PMI_ID(60, 58, 40),
    PMID_NET_EICMP6_OUTPARMPROBLEMS |-> PMI_ID(60, 58, 55),
    PMID_NET_EICMP6_INREDIRECTS |-> PMI_ID(60, 58, 50),
    PMID_NET_EICMP6_OUTREDIRECTS |-> PMI_ID(60, 58, 65),
    PMID_NET_EICMP6_INPKTTOOBIGS |-> PMI_ID(60, 58, 38),
    PMID_NET_EICMP6_OUTPKTTOOBIGS |-> PMI_ID(60, 58, 53),
    PMID_NET_UDP6_INDATAGRAMS |-> PMI_ID(60, 58, 67),
    PMID_NET_UDP6_OUTDATAGRAMS |-> PMI_ID(60, 58, 70),
    PMID_NET_UDP6_NOPORTS |-> PMI_ID(60, 58, 68),
    PMID_NET_UDP6_INERRORS |-> PMI_ID(60, 58, 69),
    PMID_MEM_HUGE_TOTALBYTES |-> PMI_ID(60, 1, 60),
    PMID_MEM_HUGE_FREEBYTES |-> PMI_ID(60, 1, 61),
    PMID_MEM_HUGE_RSVDBYTES |-> PMI_ID(60, 1, 62),
    PMID_MEM_HUGE_SURPBYTES |-> PMI_ID(60, 1, 63),
    PMID_POWER_FAN_RPM |-> PMI_ID(34, 0, 0),
    PMID_POWER_FAN_DRPM |-> PMI_ID(34, 0, 1),
    PMID_POWER_FAN_DEVICE |-> PMI_ID(34, 0, 2),
    PMID_POWER_TEMP_CELSIUS |-> PMI_ID(34, 1, 0),
    PMID_POWER_TEMP_PERCENT |-> PMI_ID(34, 1, 1),
    PMID_POWER_TEMP_DEVICE |-> PMI_ID(34, 1, 2),
    PMID_POWER_IN_VOLTAGE |-> PMI_ID(34, 2, 0),
    PMID_POWER_IN_PERCENT |-> PMI_ID(34, 2, 1),
    PMID_POWER_IN_DEVICE |-> PMI_ID(34, 2, 2),
    PMID_POWER_BAT_CAPACITY |-> PMI_ID(34, 4, 0),
    PMID_POWER_BAT_STATUS |-> PMI_ID(34, 4, 1),
    PMID_POWER_USB_BUS |-> PMI_ID(34, 3, 0),
    PMID_POWER_USB_VENDORID |-> PMI_ID(34, 3, 1),
    PMID_POWER_USB_PRODUCTID |-> PMI_ID(34, 3, 2),
    PMID_POWER_USB_MAXPOWER |-> PMI_ID(34, 3, 3),
    PMID_POWER_USB_MANUFACTURER |-> PMI_ID(34, 3, 4),
    PMID_POWER_USB_PRODUCTNAME |-> PMI_ID(34, 3, 5),
    PMID_FILESYS_CAPACITY |-> PMI_ID(60, 5, 1),
    PMID_FILESYS_FREE |-> PMI_ID(60, 5, 3),
    PMID_FILESYS_USED |-> PMI_ID(60, 5, 2),
    PMID_FILESYS_FULL |-> PMI_ID(60, 5, 8),
    PMID_FILESYS_MAXFILES |-> PMI_ID(60, 5, 4),
    PMID_FILESYS_FREEFILES |-> PMI_ID(60, 5, 6),
    PMID_FILESYS_USEDFILES |-> PMI_ID(60, 5, 5),
    PMID_FILESYS_AVAIL |-> PMI_ID(60, 5, 10),
    PMID_FCHOST_INFRAMES |-> PMI_ID(60, 91, 0),
    PMID_FCHOST_OUTFRAMES |-> PMI_ID(60, 91, 1),
    PMID_FCHOST_INBYTES |-> PMI_ID(60, 91, 2),
    PMID_FCHOST_OUTBYTES |-> PMI_ID(60, 91, 3),
    PMID_PSI_CPU_SOMETOTAL |-> PMI_ID(60, 83, 1),
    PMID_PSI_CPU_SOMEAVG |-> PMI_ID(60, 83, 0),
    PMID_PSI_IO_SOMETOTAL |-> PMI_ID(60, 85, 1),
    PMID_PSI_IO_SOMEAVG |-> PMI_ID(60, 85, 0),
    PMID_PSI_IO_FULLTOTAL |-> PMI_ID(60, 85, 3),
    PMID_PSI_IO_FULLAVG |-> PMI_ID(60, 85, 2),
    PMID_PSI_MEM_SOMETOTAL |-> PMI_ID(60, 84, 1),
    PMID_PSI_MEM_SOMEAVG |-> PMI_ID(60, 84, 0),
    PMID_PSI_MEM_FULLTOTAL |-> PMI_ID(60, 84, 3),
    PMID_PSI_MEM_FULLAVG |-> PMI_ID(60, 84, 2) ]

(* The local metric indexes (and the NFS request numbers) of the enum blocks. *)
ENUM ==
  [ FILE_HEADER_CPU_COUNT |-> 0,
    FILE_HEADER_KERNEL_HERTZ |-> 1,
    FILE_HEADER_UNAME_SYSNAME |-> 2,
    FILE_HEADER_UNAME_RELEASE |-> 3,
    FILE_HEADER_UNAME_NODENAME |-> 4,
    FILE_HEADER_UNAME_MACHINE |-> 5,
    FILE_HEADER_METRIC_COUNT |-> 6,
    RECORD_HEADER_KERNEL_UPTIME |-> 0,
    RECORD_HEADER_METRIC_COUNT |-> 1,
    CPU_ALLCPU_USER |-> 0,
    CPU_ALLCPU_SYS |-> 1,
    CPU_ALLCPU_NICE |-> 2,
    CPU_ALLCPU_IDLE |-> 3,
    CPU_ALLCPU_WAITTOTAL |-> 4,
    CPU_ALLCPU_IRQTOTAL |-> 5,
    CPU_ALLCPU_IRQSOFT |-> 6,
    CPU_ALLCPU_IRQHARD |-> 7,
    CPU_ALLCPU_STEAL |-> 8,
    CPU_ALLCPU_GUEST |-> 9,
    CPU_ALLCPU_GUESTNICE |-> 10,
    CPU_PERCPU_USER |-> 11,
    CPU_PERCPU_NICE |-> 12,
    CPU_PERCPU_SYS |-> 13,
    CPU_PERCPU_IDLE |-> 14,
    CPU_PERCPU_WAITTOTAL |-> 15,
    CPU_PERCPU_IRQTOTAL |-> 16,
    CPU_PERCPU_IRQSOFT |-> 17,
    CPU_PERCPU_IRQHARD |-> 18,
    CPU_PERCPU_STEAL |-> 19,
    CPU_PERCPU_GUEST |-> 20,
    CPU_PERCPU_GUESTNICE |-> 21,
    CPU_PERCPU_INTERRUPTS |-> 22,
    CPU_METRIC_COUNT |-> 23,
    SOFTNET_ALLCPU_PROCESSED |-> 0,
    SOFTNET_ALLCPU_DROPPED |-> 1,
    SOFTNET_ALLCPU_TIMESQUEEZE |-> 2,
    SOFTNET_ALLCPU_RECEIVEDRPS |-> 3,
    SOFTNET_ALLCPU_FLOWLIMIT |-> 4,
    SOFTNET_ALLCPU_BACKLOGLENGTH |-> 5,
    SOFTNET_PERCPU_PROCESSED |-> 6,
    SOFTNET_PERCPU_DROPPED |-> 7,
    SOFTNET_PERCPU_TIMESQUEEZE |-> 8,
    SOFTNET_PERCPU_RECEIVEDRPS |-> 9,
    SOFTNET_PERCPU_FLOWLIMIT |-> 10,
    SOFTNET_PERCPU_BACKLOGLENGTH |-> 11,
    SOFTNET_METRIC_COUNT |-> 12,
    POWER_PERCPU_CLOCK |-> 0,
    POWER_CPU_METRIC_COUNT |-> 1,
    PCSW_CONTEXT_SWITCH |-> 0,
    PCSW_FORK_SYSCALLS |-> 1,
    PCSW_METRIC_COUNT |-> 2,
    IRQ_ALLIRQ_TOTAL |-> 0,
    IRQ_PERIRQ_TOTAL |-> 1,
    IRQ_METRIC_COUNT |-> 2,
    SWAP_PAGESIN |-> 0,
    SWAP_PAGESOUT |-> 1,
    SWAP_METRIC_COUNT |-> 2,
    PAGING_PGPGIN |-> 0,
    PAGING_PGPGOUT |-> 1,
    PAGING_PGFAULT |-> 2,
    PAGING_PGMAJFAULT |-> 3,
    PAGING_PGFREE |-> 4,
    PAGING_PGSCANDIRECT |-> 5,
    PAGING_PGSCANKSWAPD |-> 6,
    PAGING_PGSTEAL |-> 7,
    PAGING_PGDEMOTE |-> 8,
    PAGING_PGPROMOTE |-> 9,
    PAGING_METRIC_COUNT |-> 10,
    IO_ALLDEV_TOTAL |-> 0,
    IO_ALLDEV_READ |-> 1,
    IO_ALLDEV_WRITE |-> 2,
    IO_ALLDEV_DISCARD |-> 3,
    IO_ALLDEV_READBYTES |-> 4,
    IO_ALLDEV_WRITEBYTES |-> 5,
    IO_ALLDEV_DISCARDBYTES |-> 6,
    IO_METRIC_COUNT |-> 7,
    MEM_PHYS_MB |-> 0,
    MEM_PHYS_KB |-> 1,
    MEM_UTIL_FREE |-> 2,
    MEM_UTIL_AVAIL |-> 3,
    MEM_UTIL_USED |-> 4,
    MEM_UTIL_BUFFER |-> 5,
    MEM_UTIL_CACHED |-> 6,
    MEM_UTIL_COMMITAS |-> 7,
    MEM_UTIL_ACTIVE |-> 8,
    MEM_UTIL_INACTIVE |-> 9,
    MEM_UTIL_DIRTY |-> 10,
    MEM_UTIL_ANON |-> 11,
    MEM_UTIL_SLAB |-> 12,
    MEM_UTIL_KSTACK |-> 13,
    MEM_UTIL_PGTABLE |-> 14,
    MEM_UTIL_VMALLOC |-> 15,
    MEM_UTIL_SWAPFREE |-> 16,
    MEM_UTIL_SWAPTOTAL |-> 17,
    MEM_UTIL_SWAPCACHED |-> 18,
    MEM_METRIC_COUNT |-> 19,
    KTABLE_DENTRYS |-> 0,
    KTABLE_FILES |-> 1,
    KTABLE_INODES |-> 2,
    KTABLE_PTYS |-> 3,
    KTABLE_METRIC_COUNT |-> 4,
    KQUEUE_RUNNABLE |-> 0,
    KQUEUE_PROCESSES |-> 1,
    KQUEUE_BLOCKED |-> 2,
    KQUEUE_LOADAVG |-> 3,
    KQUEUE_METRIC_COUNT |-> 4,
    DISK_PERDEV_READ |-> 0,
    DISK_PERDEV_WRITE |-> 1,
    DISK_PERDEV_TOTAL |-> 2,
    DISK_PERDEV_TOTALBYTES |-> 3,
    DISK_PERDEV_READBYTES |-> 4,
    DISK_PERDEV_WRITEBYTES |-> 5,
    DISK_PERDEV_DISCARDBYTES |-> 6,
    DISK_PERDEV_READACTIVE |-> 7,
    DISK_PERDEV_WRITEACTIVE |-> 8,
    DISK_PERDEV_TOTALACTIVE |-> 9,
    DISK_PERDEV_DISCARDACTIVE |-> 10,
    DISK_PERDEV_AVACTIVE |-> 11,
    DISK_PERDEV_AVQUEUE |-> 12,
    DISK_METRIC_COUNT |-> 13,
    NET_PERINTF_INPACKETS |-> 0,
    NET_PERINTF_OUTPACKETS |-> 1,
    NET_PERINTF_INBYTES |-> 2,
    NET_PERINTF_OUTBYTES |-> 3,
    NET_PERINTF_INCOMPRESS |-> 4,
    NET_PERINTF_OUTCOMPRESS |-> 5,
    NET_PERINTF_INMULTICAST |-> 6,
    NET_PERINTF_METRIC_COUNT |-> 7,
    NET_EPERINTF_INERRORS |-> 0,
    NET_EPERINTF_OUTERRORS |-> 1,
    NET_EPERINTF_COLLISIONS |-> 2,
    NET_EPERINTF_INDROPS |-> 3,
    NET_EPERINTF_OUTDROPS |-> 4,
    NET_EPERINTF_OUTCARRIER |-> 5,
    NET_EPERINTF_INFRAME |-> 6,
    NET_EPERINTF_INFIFO |-> 7,
    NET_EPERINTF_OUTFIFO |-> 8,
    NET_EPERINTF_METRIC_COUNT |-> 9,
    SERIAL_PERTTY_RX |-> 0,
    SERIAL_PERTTY_TX |-> 1,
    SERIAL_PERTTY_FRAME |-> 2,
    SERIAL_PERTTY_PARITY |-> 3,
    SERIAL_PERTTY_BRK |-> 4,
    SERIAL_PERTTY_OVERRUN |-> 5,
    SERIAL_METRIC_COUNT |-> 6,
    SOCKET_TOTAL |-> 0,
    SOCKET_TCPINUSE |-> 1,
    SOCKET_UDPINUSE |-> 2,
    SOCKET_RAWINUSE |-> 3,
    SOCKET_FRAGINUSE |-> 4,
    SOCKET_TCPTW |-> 5,
    SOCKET_METRIC_COUNT |-> 6,
    NET_IP_INRECEIVES |-> 0,
    NET_IP_FORWDATAGRAMS |-> 1,
    NET_IP_INDELIVERS |-> 2,
    NET_IP_OUTREQUESTS |-> 3,
    NET_IP_REASMREQDS |-> 4,
    NET_IP_REASMOKS |-> 5,
    NET_IP_FRAGOKS |-> 6,
    NET_IP_FRAGCREATES |-> 7,
    NET_IP_METRIC_COUNT |-> 8,
    NET_EIP_INHDRERRORS |-> 0,
    NET_EIP_INADDRERRORS |-> 1,
    NET_EIP_INUNKNOWNPROTOS |-> 2,
    NET_EIP_INDISCARDS |-> 3,
    NET_EIP_OUTDISCARDS |-> 4,
    NET_EIP_OUTNOROUTES |-> 5,
    NET_EIP_REASMFAILS |-> 6,
    NET_EIP_FRAGFAILS |-> 7,
    NET_EIP_METRIC_COUNT |-> 8,
    NFS_REQUEST_GETATTR |-> 4,
    NFS_REQUEST_READ |-> 6,
    NFS_REQUEST_WRITE |-> 8,
    NFS_REQUEST_ACCESS |-> 18,
    NFSCLIENT_RPCCCNT |-> 0,
    NFSCLIENT_RPCRETRANS |-> 1,
    NFSCLIENT_REQUESTS |-> 2,
    NFSCLIENT_METRIC_COUNT |-> 3,
    NFSSERVER_RPCCNT |-> 0,
    NFSSERVER_RPCBADCLNT |-> 1,
    NFSSERVER_NETCNT |-> 2,
    NFSSERVER_NETUDPCNT |-> 3,
    NFSSERVER_NETTCPCNT |-> 4,
    NFSSERVER_RCHITS |-> 5,
    NFSSERVER_RCMISSES |-> 6,
    NFSSERVER_REQUESTS |-> 7,
    NFSSERVER_METRIC_COUNT |-> 8,
    NET_ICMP_INMSGS |-> 0,
    NET_ICMP_OUTMSGS |-> 1,
    NET_ICMP_INECHOS |-> 2,
    NET_ICMP_INECHOREPS |-> 3,
    NET_ICMP_OUTECHOS |-> 4,
    NET_ICMP_OUTECHOREPS |-> 5,
    NET_ICMP_INTIMESTAMPS |-> 6,
    NET_ICMP_INTIMESTAMPREPS |-> 7,
    NET_ICMP_OUTTIMESTAMPS |-> 8,
    NET_ICMP_OUTTIMESTAMPREPS |-> 9,
    NET_ICMP_INADDRMASKS |-> 10,
    NET_ICMP_INADDRMASKREPS |-> 11,
    NET_ICMP_OUTADDRMASKS |-> 12,
    NET_ICMP_OUTADDRMASKREPS |-> 13,
    NET_ICMP_METRIC_COUNT |-> 14,
    NET_EICMP_INERRORS |-> 0,
    NET_EICMP_OUTERRORS |-> 1,
    NET_EICMP_INDESTUNREACHS |-> 2,
    NET_EICMP_OUTDESTUNREACHS |-> 3,
    NET_EICMP_INTIMEEXCDS |-> 4,
    NET_EICMP_OUTTIMEEXCDS |-> 5,
    NET_EICMP_INPARMPROBS |-> 6,
    NET_EICMP_OUTPARMPROBS |-> 7,
    NET_EICMP_INSRCQUENCHS |-> 8,
    NET_EICMP_OUTSRCQUENCHS |-> 9,
    NET_EICMP_INREDIRECTS |-> 10,
    NET_EICMP_OUTREDIRECTS |-> 11,
    NET_EICMP_METRIC_COUNT |-> 12,
    NET_TCP_ACTIVEOPENS |-> 0,
    NET_TCP_PASSIVEOPENS |-> 1,
    NET_TCP_INSEGS |-> 2,
    NET_TCP_OUTSEGS |-> 3,
    NET_TCP_METRIC_COUNT |-> 4,
    NET_ETCP_ATTEMPTFAILS |-> 0,
    NET_ETCP_ESTABRESETS |-> 1,
    NET_ETCP_RETRANSSEGS |-> 2,
    NET_ETCP_INERRS |-> 3,
    NET_ETCP_OUTRSTS |-> 4,
    NET_ETCP_METRIC_COUNT |-> 5,
    NET_UDP_INDATAGRAMS |-> 0,
    NET_UDP_OUTDATAGRAMS |-> 1,
    NET_UDP_NOPORTS |-> 2,
    NET_UDP_INERRORS |-> 3,
    NET_UDP_METRIC_COUNT |-> 4,
    NET_SOCK6_TCPINUSE |-> 0,
    NET_SOCK6_UDPINUSE |-> 1,
    NET_SOCK6_RAWINUSE |-> 2,
    NET_SOCK6_FRAGINUSE |-> 3,
    NET_SOCK6_METRIC_COUNT |-> 4,
    NET_IP6_INRECEIVES |-> 0,
    NET_IP6_OUTFORWDATAGRAMS |-> 1,
    NET_IP6_INDELIVERS |-> 2,
    NET_IP6_OUTREQUESTS |-> 3,
    NET_IP6_REASMREQDS |-> 4,
    NET_IP6_REASMOKS |-> 5,
    NET_IP6_INMCASTPKTS |-> 6,
    NET_IP6_OUTMCASTPKTS |-> 7,
    NET_IP6_FRAGOKS |-> 8,
    NET_IP6_FRAGCREATES |-> 9,
    NET_IP6_METRIC_COUNT |-> 10,
    NET_EIP6_INHDRERRORS |-> 0,
    NET_EIP6_INADDRERRORS |-> 1,
    NET_EIP6_INUNKNOWNPROTOS |-> 2,
    NET_EIP6_INTOOBIGERRORS |-> 3,
    NET_EIP6_INDISCARDS |-> 4,
    NET_EIP6_OUTDISCARDS |-> 5,
    NET_EIP6_INNOROUTES |-> 6,
    NET_EIP6_OUTNOROUTES |-> 7,
    NET_EIP6_REASMFAILS |-> 8,
    NET_EIP6_FRAGFAILS |-> 9,
    NET_EIP6_INTRUNCATEDPKTS |-> 10,
    NET_EIP6_METRIC_COUNT |-> 11,
    NET_ICMP6_INMSGS |-> 0,
    NET_ICMP6_OUTMSGS |-> 1,
    NET_ICMP6_INECHOS |-> 2,
    NET_ICMP6_INECHOREPLIES |-> 3,
    NET_ICMP6_OUTECHOREPLIES |-> 4,
    NET_ICMP6_INGROUPMEMBQUERIES |-> 5,
    NET_ICMP6_INGROUPMEMBRESPONSES |-> 6,
    NET_ICMP6_OUTGROUPMEMBRESPONSES |-> 7,
    NET_ICMP6_INGROUPMEMBREDUCTIONS |-> 8,
    NET_ICMP6_OUTGROUPMEMBREDUCTIONS |-> 9,
    NET_ICMP6_INROUTERSOLICITS |-> 10,
    NET_ICMP6_OUTROUTERSOLICITS |-> 11,
    NET_ICMP6_INROUTERADVERTISEMENTS |-> 12,
    NET_ICMP6_INNEIGHBORSOLICITS |-> 13,
    NET_ICMP6_OUTNEIGHBORSOLICITS |-> 14,
    NET_ICMP6_INNEIGHBORADVERTISEMENTS |-> 15,
    NET_ICMP6_OUTNEIGHBORADVERTISEMENTS |-> 16,
    NET_ICMP6_METRIC_COUNT |-> 17,
    NET_EICMP6_INERRORS |-> 0,
    NET_EICMP6_INDESTUNREACHS |-> 1,
    NET_EICMP6_OUTDESTUNREACHS |-> 2,
    NET_EICMP6_INTIMEEXCDS |-> 3,
    NET_EICMP6_OUTTIMEEXCDS |-> 4,
    NET_EICMP6_INPARMPROBLEMS |-> 5,
    NET_EICMP6_OUTPARMPROBLEMS |-> 6,
    NET_EICMP6_INREDIRECTS |-> 7,
    NET_EICMP6_OUTREDIRECTS |-> 8,
    NET_EICMP6_INPKTTOOBIGS |-> 9,
    NET_EICMP6_OUTPKTTOOBIGS |-> 10,
    NET_EICMP6_METRIC_COUNT |-> 11,
    NET_UDP6_INDATAGRAMS |-> 0,
    NET_UDP6_OUTDATAGRAMS |-> 1,
    NET_UDP6_NOPORTS |-> 2,
    NET_UDP6_INERRORS |-> 3,
    NET_UDP6_METRIC_COUNT |-> 4,
    MEM_HUGE_TOTALBYTES |-> 0,
    MEM_HUGE_FREEBYTES |-> 1,
    MEM_HUGE_RSVDBYTES |-> 2,
    MEM_HUGE_SURPBYTES |-> 3,
    MEM_HUGE_METRIC_COUNT |-> 4,
    POWER_FAN_RPM |-> 0,
    POWER_FAN_DRPM |-> 1,
    POWER_FAN_DEVICE |-> 2,
    POWER_FAN_METRIC_COUNT |-> 3,
    POWER_TEMP_CELSIUS |-> 0,
    POWER_TEMP_PERCENT |-> 1,
    POWER_TEMP_DEVICE |-> 2,
    POWER_TEMP_METRIC_COUNT |-> 3,
    POWER_IN_VOLTAGE |-> 0,
    POWER_IN_PERCENT |-> 1,
    POWER_IN_DEVICE |-> 2,
    POWER_IN_METRIC_COUNT |-> 3,
    POWER_BAT_CAPACITY |-> 0,
    POWER_BAT_STATUS |-> 1,
    POWER_BAT_METRIC_COUNT |-> 2,
    POWER_USB_BUS |-> 0,
    POWER_USB_VENDORID |-> 1,
    POWER_USB_PRODUCTID |-> 2,
    POWER_USB_MAXPOWER |-> 3,
    POWER_USB_MANUFACTURER |-> 4,
    POWER_USB_PRODUCTNAME |-> 5,
    POWER_USB_METRIC_COUNT |-> 6,
    FILESYS_CAPACITY |-> 0,
    FILESYS_FREE |-> 1,
    FILESYS_USED |-> 2,
    FILESYS_FULL |-> 3,
    FILESYS_MAXFILES |-> 4,
    FILESYS_FREEFILES |-> 5,
    FILESYS_USEDFILES |-> 6,
    FILESYS_AVAIL |-> 7,
    FILESYS_METRIC_COUNT |-> 8,
    FCHOST_INFRAMES |-> 0,
    FCHOST_OUTFRAMES |-> 1,
    FCHOST_INBYTES |-> 2,
    FCHOST_OUTBYTES |-> 3,
    FCHOST_METRIC_COUNT |-> 4,
    PSI_CPU_SOMETOTAL |-> 0,
    PSI_CPU_SOMEAVG |-> 1,
    PSI_CPU_METRIC_COUNT |-> 2,
    PSI_IO_SOMETOTAL |-> 0,
    PSI_IO_SOMEAVG |-> 1,
    PSI_IO_FULLTOTAL |-> 2,
    PSI_IO_FULLAVG |-> 3,
    PSI_IO_METRIC_COUNT |-> 4,
    PSI_MEM_SOMETOTAL |-> 0,
    PSI_MEM_SOMEAVG |-> 1,
    PSI_MEM_FULLTOTAL |-> 2,
    PSI_MEM_FULLAVG |-> 3,
    PSI_MEM_METRIC_COUNT |-> 4 ]

file_header_metrics ==
  [count |-> ENUM.FILE_HEADER_METRIC_COUNT,
   names |->
     << "hinv.ncpu",
        "kernel.all.hz",
        "kernel.uname.sysname",
        "kernel.uname.release",
        "kernel.uname.nodename",
        "kernel.uname.machine" >>,
   descs |->
     << [pmid |-> PMI_ID(60, 0, 32), indom |-> PM_INDOM_NULL, type |-> "PM_TYPE_U32", sem |-> "PM_SEM_DISCRETE"],  \* PMID_FILE_HEADER_CPU_COUNT
        [pmid |-> PMI_ID(60, 0, 48), indom |-> PM_INDOM_NULL, type |-> "PM_TYPE_U32", sem |-> "PM_SEM_DISCRETE"],  \* PMID_FILE_HEADER_KERNEL_HERTZ
        [pmid |-> PMI_ID(60, 12, 2), indom |-> PM_INDOM_NULL, type |-> "PM_TYPE_STRING", sem |-> "PM_SEM_DISCRETE"],  \* PMID_FILE_HEADER_UNAME_SYSNAME
        [pmid |-> PMI_ID(60, 12, 0), indom |-> PM_INDOM_NULL, type |-> "PM_TYPE_STRING", sem |-> "PM_SEM_DISCRETE"],  \* PMID_FILE_HEADER_UNAME_RELEASE
        [pmid |-> PMI_ID(60, 12, 4), indom |-> PM_INDOM_NULL, type |-> "PM_TYPE_STRING", sem |-> "PM_SEM_DISCRETE"],  \* PMID_FILE_HEADER_UNAME_NODENAME
        [pmid |-> PMI_ID(60, 12, 3), indom |-> PM_INDOM_NULL, type |-> "PM_TYPE_STRING", sem |-> "PM_SEM_DISCRETE"] >>]  \* PMID_FILE_HEADER_UNAME_MACHINE

record_header_metrics ==
  [count |-> ENUM.RECORD_HEADER_METRIC_COUNT,
   names |->
     << "kernel.all.uptime" >>,
   descs |->
     << [pmid |-> PMI_ID(60, 26, 0), indom |-> PM_INDOM_NULL, type |-> "PM_TYPE_DOUBLE", sem |-> "PM_SEM_INSTANT"] >>]  \* PMID_RECORD_HEADER_KERNEL_UPTIME

cpu_metrics ==
  [count |-> ENUM.CPU_METRIC_COUNT,
   names |->
     << "kernel.all.cpu.user",
        "kernel.all.cpu.sys",
        "kernel.all.cpu.nice",
        "kernel.all.cpu.idle",
        "kernel.all.cpu.wait.total",
        "kernel.all.intr",
        "kernel.all.cpu.irq.soft",
        "kernel.all.cpu.irq.hard",
        NULL_NAME,
        "kernel.all.cpu.guest",
        "kernel.all.cpu.guest_nice",
        "kernel.percpu.cpu.user",
        "kernel.percpu.cpu.nice",
        "kernel.percpu.cpu.sys",
        "kernel.percpu.cpu.idle",
        "kernel.percpu.cpu.wait.total",
        "kernel.percpu.intr",
        "kernel.percpu.cpu.irq.soft",
        "kernel.percpu.cpu.irq.hard",
        "kernel.percpu.cpu.steal",
        "kernel.percpu.cpu.guest",
        "kernel.percpu.cpu.guest_nice",
        "kernel.percpu.interrupts" >>,
   descs |->
     << [pmid |-> PMI_ID(60, 0, 20), indom |-> PM_INDOM_NULL, type |-> "PM_TYPE_U64", sem |-> "PM_SEM_COUNTER"],  \* PMID_CPU_ALLCPU_USER
        [pmid |-> PMI_ID(60, 0, 22), indom |-> PM_INDOM_NULL, type |-> "PM_TYPE_U64", sem |-> "PM_SEM_COUNTER"],  \* PMID_CPU_ALLCPU_SYS
        [pmid |-> PMI_ID(60, 0, 21), indom |-> PM_INDOM_NULL, type |-> "PM_TYPE_U64", sem |-> "PM_SEM_COUNTER"],  \* PMID_CPU_ALLCPU_NICE
        [pmid |-> PMI_ID(60, 0, 23), indom |-> PM_INDOM_NULL, type |-> "PM_TYPE_U64", sem |-> "PM_SEM_COUNTER"],  \* PMID_CPU_ALLCPU_IDLE
        [pmid |-> PMI_ID(60, 0, 35), indom |-> PM_INDOM_NULL, type |-> "PM_TYPE_U64", sem |-> "PM_SEM_COUNTER"],  \* PMID_CPU_ALLCPU_WAITTOTAL
        [pmid |-> PMI_ID(60, 0, 34), indom |-> PM_INDOM_NULL, type |-> "PM_TYPE_U64", sem |-> "PM_SEM_COUNTER"],  \* PMID_CPU_ALLCPU_IRQTOTAL
        [pmid |-> PMI_ID(60, 0, 53), indom |-> PM_INDOM_NULL, type |-> "PM_TYPE_U64", sem |-> "PM_SEM_COUNTER"],  \* PMID_CPU_ALLCPU_IRQSOFT
        [pmid |-> PMI_ID(60, 0, 54), indom |-> PM_INDOM_NULL, type |-> "PM_TYPE_U64", sem |-> "PM_SEM_COUNTER"],  \* PMID_CPU_ALLCPU_IRQHARD
        [pmid |-> PMI_ID(60, 0, 55), indom |-> PM_INDOM_NULL, type |-> "PM_TYPE_U64", sem |-> "PM_SEM_COUNTER"],  \* PMID_CPU_ALLCPU_STEAL
        [pmid |-> PMI_ID(60, 0, 60), indom |-> PM_INDOM_NULL, type |-> "PM_TYPE_U64", sem |-> "PM_SEM_COUNTER"],  \* PMID_CPU_ALLCPU_GUEST
        [pmid |-> PMI_ID(60, 0, 81), indom |-> PM_INDOM_NULL, type |-> "PM_TYPE_U64", sem |-> "PM_SEM_COUNTER"],  \* PMID_CPU_ALLCPU_GUESTNICE
        [pmid |-> PMI_ID(60, 0, 0), indom |-> PMI_INDOM(60, 0), type |-> "PM_TYPE_U64", sem |-> "PM_SEM_COUNTER"],  \* PMID_CPU_PERCPU_USER
        [pmid |-> PMI_ID(60, 0, 1), indom |-> PMI_INDOM(60, 0), type |-> "PM_TYPE_U64", sem |-> "PM_SEM_COUNTER"],  \* PMID_CPU_PERCPU_NICE
        [pmid |-> PMI_ID(60, 0, 2), indom |-> PMI_INDOM(60, 0), type |-> "PM_TYPE_U64", sem |-> "PM_SEM_COUNTER"],  \* PMID_CPU_PERCPU_SYS
        [pmid |-> PMI_ID(60, 0, 3), indom |-> PMI_INDOM(60, 0), type |-> "PM_TYPE_U64", sem |-> "PM_SEM_COUNTER"],  \* PMID_CPU_PERCPU_IDLE
        [pmid |-> PMI_ID(60, 0, 30), indom |-> PMI_INDOM(60, 0), type |-> "PM_TYPE_U64", sem |-> "PM_SEM_COUNTER"],  \* PMID_CPU_PERCPU_WAITTOTAL
        [pmid |-> PMI_ID(60, 0, 31), indom |-> PMI_INDOM(60, 0), type |-> "PM_TYPE_U64", sem |-> "PM_SEM_COUNTER"],  \* PMID_CPU_PERCPU_IRQTOTAL
        [pmid |-> PMI_ID(60, 0, 56), indom |-> PMI_INDOM(60, 0), type |-> "PM_TYPE_U64", sem |-> "PM_SEM_COUNTER"],  \* PMID_CPU_PERCPU_IRQSOFT
        [pmid |-> PMI_ID(60, 0, 57), indom |-> PMI_INDOM(60, 0), type |-> "PM_TYPE_U64", sem |-> "PM_SEM_COUNTER"],  \* PMID_CPU_PERCPU_IRQHARD
        [pmid |-> PMI_ID(60, 0, 58), indom |-> PMI_INDOM(60, 0), type |-> "PM_TYPE_U64", sem |-> "PM_SEM_COUNTER"],  \* PMID_CPU_PERCPU_STEAL
        [pmid |-> PMI_ID(60, 0, 61), indom |-> PMI_INDOM(60, 0), type |-> "PM_TYPE_U64", sem |-> "PM_SEM_COUNTER"],  \* PMID_CPU_PERCPU_GUEST
        [pmid |-> PMI_ID(60, 0, 83), indom |-> PMI_INDOM(60, 0), type |-> "PM_TYPE_U64", sem |-> "PM_SEM_COUNTER"],  \* PMID_CPU_PERCPU_GUESTNICE
        [pmid |-> PMI_ID(60, 4, 1), indom |-> PMI_INDOM(60, 40), type |-> "PM_TYPE_U32", sem |-> "PM_SEM_COUNTER"] >>]  \* PMID_CPU_PERCPU_INTERRUPTS

softnet_metrics ==
  [count |-> ENUM.SOFTNET_METRIC_COUNT,
   names |->
     << "network.softnet.processed",
        "network.softnet.dropped",
        "network.softnet.time_squeeze",
        "network.softnet.received_rps",
        "network.softnet.flow_limit",
        "network.softnet.backlog_length",
        "network.softnet.percpu.processed",
        "network.softnet.percpu.dropped",
        "network.softnet.percpu.time_squeeze",
        "network.softnet.percpu.received_rps",
        "network.softnet.percpu.flow_limit",
        "network.softnet.percpu.backlog_length" >>,
   descs |->
     << [pmid |-> PMI_ID(60, 57, 0), indom |-> PM_INDOM_NULL, type |-> "PM_TYPE_U64", sem |-> "PM_SEM_COUNTER"],  \* PMID_SOFTNET_ALLCPU_PROCESSED
        [pmid |-> PMI_ID(60, 57, 1), indom |-> PM_INDOM_NULL, type |-> "PM_TYPE_U64", sem |-> "PM_SEM_COUNTER"],  \* PMID_SOFTNET_ALLCPU_DROPPED
        [pmid |-> PMI_ID(60, 57, 2), indom |-> PM_INDOM_NULL, type |-> "PM_TYPE_U64", sem |-> "PM_SEM_COUNTER"],  \* PMID_SOFTNET_ALLCPU_TIMESQUEEZE
        [pmid |-> PMI_ID(60, 57, 4), indom |-> PM_INDOM_NULL, type |-> "PM_TYPE_U64", sem |-> "PM_SEM_COUNTER"],  \* PMID_SOFTNET_ALLCPU_RECEIVEDRPS
        [pmid |-> PMI_ID(60, 57, 5), indom |-> PM_INDOM_NULL, type |-> "PM_TYPE_U64", sem |-> "PM_SEM_COUNTER"],  \* PMID_SOFTNET_ALLCPU_FLOWLIMIT
        [pmid |-> PMI_ID(60, 57, 12), indom |-> PM_INDOM_NULL, type |-> "PM_TYPE_U64", sem |-> "PM_SEM_COUNTER"],  \* PMID_SOFTNET_ALLCPU_BACKLOGLENGTH
        [pmid |-> PMI_ID(60, 57, 6), indom |-> PMI_INDOM(60, 0), type |-> "PM_TYPE_U64", sem |-> "PM_SEM_COUNTER"],  \* PMID_SOFTNET_PERCPU_PROCESSED
        [pmid |-> PMI_ID(60, 57, 7), indom |-> PMI_INDOM(60, 0), type |-> "PM_TYPE_U64", sem |-> "PM_SEM_COUNTER"],  \* PMID_SOFTNET_PERCPU_DROPPED
        [pmid |-> PMI_ID(60, 57, 8), indom |-> PMI_INDOM(60, 0), type |-> "PM_TYPE_U64", sem |-> "PM_SEM_COUNTER"],  \* PMID_SOFTNET_PERCPU_TIMESQUEEZE
        [pmid |-> PMI_ID(60, 57, 10), indom |-> PMI_INDOM(60, 0), type |-> "PM_TYPE_U64", sem |-> "PM_SEM_COUNTER"],  \* PMID_SOFTNET_PERCPU_RECEIVEDRPS
        [pmid |-> PMI_ID(60, 57, 11), indom |-> PMI_INDOM(60, 0), type |-> "PM_TYPE_U64", sem |-> "PM_SEM_COUNTER"],  \* PMID_SOFTNET_PERCPU_FLOWLIMIT
        [pmid |-> PMI_ID(60, 57, 13), indom |-> PMI_INDOM(60, 0), type |-> "PM_TYPE_U64", sem |-> "PM_SEM_COUNTER"] >>]  \* PMID_SOFTNET_PERCPU_BACKLOGLENGTH

power_cpu_metrics ==
  [count |-> ENUM.POWER_CPU_METRIC_COUNT,
   names |->
     << "hinv.cpu.clock" >>,
   descs |->
     << [pmid |-> PMI_ID(60, 18, 0), indom |-> PMI_INDOM(60, 0), type |-> "PM_TYPE_FLOAT", sem |-> "PM_SEM_DISCRETE"] >>]  \* PMID_POWER_PERCPU_CLOCK

pcsw_metrics ==
  [count |-> ENUM.PCSW_METRIC_COUNT,
   names |->
     << "kernel.all.pswitch",
        "kernel.all.sysfork" >>,
   descs |->
     << [pmid |-> PMI_ID(60, 0, 13), indom |-> PM_INDOM_NULL, type |-> "PM_TYPE_U64", sem |-> "PM_SEM_COUNTER"],  \* PMID_PCSW_CONTEXT_SWITCH
        [pmid |-> PMI_ID(60, 0, 14), indom |-> PM_INDOM_NULL, type |-> "PM_TYPE_U64", sem |-> "PM_SEM_COUNTER"] >>]  \* PMID_PCSW_FORK_SYSCALLS

irq_metrics ==
  [count |-> ENUM.IRQ_METRIC_COUNT,
   names |->
     << "kernel.all.intr",
        "kernel.all.interrupts.total" >>,
   descs |->
     << [pmid |-> PMI_ID(60, 0, 12), indom |-> PM_INDOM_NULL, type |-> "PM_TYPE_U64", sem |-> "PM_SEM_COUNTER"],  \* PMID_IRQ_ALLIRQ_TOTAL
        [pmid |-> PMI_ID(60, 4, 0), indom |-> PMI_INDOM(60, 4), type |-> "PM_TYPE_U64", sem |-> "PM_SEM_COUNTER"] >>]  \* PMID_IRQ_PERIRQ_TOTAL

swap_metrics ==
  [count |-> ENUM.SWAP_METRIC_COUNT,
   names |->
     << "swap.pagesin",
        "swap.pagesout" >>,
   descs |->
     << [pmid |-> PMI_ID(60, 0, 8), indom |-> PM_INDOM_NULL, type |-> "PM_TYPE_U32", sem |-> "PM_SEM_COUNTER"],  \* PMID_SWAP_PAGESIN
        [pmid |-> PMI_ID(60, 0, 9), indom |-> PM_INDOM_NULL, type |-> "PM_TYPE_U64", sem |-> "PM_SEM_COUNTER"] >>]  \* PMID_SWAP_PAGESOUT

paging_metrics ==
  [count |-> ENUM.PAGING_METRIC_COUNT,
   names |->
     << "mem.vmstat.pgpgin",
        "mem.vmstat.pgpgout",
        "mem.vmstat.pgfault",
        "mem.vmstat.pgmajfault",
        "mem.vmstat.pgfree",
        "mem.vmstat.pgscan_direct_total",
        "mem.vmstat.pgscan_kswapd_total",
        "mem.vmstat.pgsteal_total",
        "mem.vmstat.pgdemote_total",
        "mem.vmstat.pgpromote_success" >>,
   descs |->
     << [pmid |-> PMI_ID(60, 28, 6), indom |-> PM_INDOM_NULL, type |-> "PM_TYPE_U64", sem |-> "PM_SEM_COUNTER"],  \* PMID_PAGING_PGPGIN
        [pmid |-> PMI_ID(60, 28, 7), indom |-> PM_INDOM_NULL, type |-> "PM_TYPE_U64", sem |-> "PM_SEM_COUNTER"],  \* PMID_PAGING_PGPGOUT
        [pmid |-> PMI_ID(60, 28, 16), indom |-> PM_INDOM_NULL, type |-> "PM_TYPE_U64", sem |-> "PM_SEM_COUNTER"],  \* PMID_PAGING_PGFAULT
        [pmid |-> PMI_ID(60, 28, 17), indom |-> PM_INDOM_NULL, type |-> "PM_TYPE_U64", sem |-> "PM_SEM_COUNTER"],  \* PMID_PAGING_PGMAJFAULT
        [pmid |-> PMI_ID(60, 28, 13), indom |-> PM_INDOM_NULL, type |-> "PM_TYPE_U64", sem |-> "PM_SEM_COUNTER"],  \* PMID_PAGING_PGFREE
        [pmid |-> PMI_ID(60, 28, 176), indom |-> PM_INDOM_NULL, type |-> "PM_TYPE_U64", sem |-> "PM_SEM_COUNTER"],  \* PMID_PAGING_PGSCANDIRECT
        [pmid |-> PMI_ID(60, 28, 177), indom |-> PM_INDOM_NULL, type |-> "PM_TYPE_U64", sem |-> "PM_SEM_COUNTER"],  \* PMID_PAGING_PGSCANKSWAPD
        [pmid |-> PMI_ID(60, 28, 178), indom |-> PM_INDOM_NULL, type |-> "PM_TYPE_U64", sem |-> "PM_SEM_COUNTER"],  \* PMID_PAGING_PGSTEAL
        [pmid |-> PMI_ID(60, 28, 185), indom |-> PM_INDOM_NULL, type |-> "PM_TYPE_U64", sem |-> "PM_SEM_COUNTER"],  \* PMID_PAGING_PGDEMOTE
        [pmid |-> PMI_ID(60, 28, 187), indom |-> PM_INDOM_NULL, type |-> "PM_TYPE_U64", sem |-> "PM_SEM_COUNTER"] >>]  \* PMID_PAGING_PGPROMOTE

io_metrics ==
  [count |-> ENUM.IO_METRIC_COUNT,
   names |->
     << "disk.all.total",
        "disk.all.read",
        "disk.all.write",
        "disk.all.discard",
        "disk.all.read_bytes",
        "disk.all.write_bytes",
        "disk.all.discard_bytes" >>,
   descs |->
     << [pmid |-> PMI_ID(60, 0, 29), indom |-> PM_INDOM_NULL, type |-> "PM_TYPE_U64", sem |-> "PM_SEM_COUNTER"],  \* PMID_IO_ALLDEV_TOTAL
        [pmid |-> PMI_ID(60, 0, 24), indom |-> PM_INDOM_NULL, type |-> "PM_TYPE_U64", sem |-> "PM_SEM_COUNTER"],  \* PMID_IO_ALLDEV_READ
        [pmid |-> PMI_ID(60, 0, 25), indom |-> PM_INDOM_NULL, type |-> "PM_TYPE_U64", sem |-> "PM_SEM_COUNTER"],  \* PMID_IO_ALLDEV_WRITE
        [pmid |-> PMI_ID(60, 0, 96), indom |-> PM_INDOM_NULL, type |-> "PM_TYPE_U64", sem |-> "PM_SEM_COUNTER"],  \* PMID_IO_ALLDEV_DISCARD
        [pmid |-> PMI_ID(60, 0, 41), indom |-> PM_INDOM_NULL, type |-> "PM_TYPE_U64", sem |-> "PM_SEM_COUNTER"],  \* PMID_IO_ALLDEV_READBYTES
        [pmid |-> PMI_ID(60, 0, 42), indom |-> PM_INDOM_NULL, type |-> "PM_TYPE_U64", sem |-> "PM_SEM_COUNTER"],  \* PMID_IO_ALLDEV_WRITEBYTES
        [pmid |-> PMI_ID(60, 0, 98), indom |-> PM_INDOM_NULL, type |-> "PM_TYPE_U64", sem |-> "PM_SEM_COUNTER"] >>]  \* PMID_IO_ALLDEV_DISCARDBYTES

mem_metrics ==
  [count |-> ENUM.MEM_METRIC_COUNT,
   names |->
     << "hinv.physmem",
        "mem.physmem",
        "mem.util.free",
        "mem.util.available",
        "mem.util.used",
        "mem.util.bufmem",
        "mem.util.cached",
        "mem.util.committed_AS",
        "mem.util.active",
        "mem.util.inactive",
        "mem.util.dirty",
        "mem.util.anonpages",
        "mem.util.slab",
        "mem.util.kernelStack",
        "mem.util.pageTables",
        "mem.util.vmallocUsed",
        "mem.util.swapFree",
        "mem.util.swapTotal",
        "mem.util.swapCached" >>,
   descs |->
     << [pmid |-> PMI_ID(60, 1, 9), indom |-> PM_INDOM_NULL, type |-> "PM_TYPE_U32", sem |-> "PM_SEM_DISCRETE"],  \* PMID_MEM_PHYS_MB
        [pmid |-> PMI_ID(60, 1, 0), indom |-> PM_INDOM_NULL, type |-> "PM_TYPE_U64", sem |-> "PM_SEM_DISCRETE"],  \* PMID_MEM_PHYS_KB
        [pmid |-> PMI_ID(60, 1, 2), indom |-> PM_INDOM_NULL, type |-> "PM_TYPE_U64", sem |-> "PM_SEM_INSTANT"],  \* PMID_MEM_UTIL_FREE
        [pmid |-> PMI_ID(60, 1, 58), indom |-> PM_INDOM_NULL, type |-> "PM_TYPE_U64", sem |-> "PM_SEM_INSTANT"],  \* PMID_MEM_UTIL_AVAIL
        [pmid |-> PMI_ID(60, 1, 1), indom |-> PM_INDOM_NULL, type |-> "PM_TYPE_U64", sem |-> "PM_SEM_INSTANT"],  \* PMID_MEM_UTIL_USED
        [pmid |-> PMI_ID(60, 1, 4), indom |-> PM_INDOM_NULL, type |-> "PM_TYPE_U64", sem |-> "PM_SEM_INSTANT"],  \* PMID_MEM_UTIL_BUFFER
        [pmid |-> PMI_ID(60, 1, 5), indom |-> PM_INDOM_NULL, type |-> "PM_TYPE_U64", sem |-> "PM_SEM_INSTANT"],  \* PMID_MEM_UTIL_CACHED
        [pmid |-> PMI_ID(60, 1, 26), indom |-> PM_INDOM_NULL, type |-> "PM_TYPE_U64", sem |-> "PM_SEM_INSTANT"],  \* PMID_MEM_UTIL_COMMITAS
        [pmid |-> PMI_ID(60, 1, 14), indom |-> PM_INDOM_NULL, type |-> "PM_TYPE_U64", sem |-> "PM_SEM_INSTANT"],  \* PMID_MEM_UTIL_ACTIVE
        [pmid |-> PMI_ID(60, 1, 15), indom |-> PM_INDOM_NULL, type |-> "PM_TYPE_U64", sem |-> "PM_SEM_INSTANT"],  \* PMID_MEM_UTIL_INACTIVE
        [pmid |-> PMI_ID(60, 1, 22), indom |-> PM_INDOM_NULL, type |-> "PM_TYPE_U64", sem |-> "PM_SEM_INSTANT"],  \* PMID_MEM_UTIL_DIRTY
        [pmid |-> PMI_ID(60, 1, 30), indom |-> PM_INDOM_NULL, type |-> "PM_TYPE_U64", sem |-> "PM_SEM_INSTANT"],  \* PMID_MEM_UTIL_ANON
        [pmid |-> PMI_ID(60, 1, 25), indom |-> PM_INDOM_NULL, type |-> "PM_TYPE_U64", sem |-> "PM_SEM_INSTANT"],  \* PMID_MEM_UTIL_SLAB
        [pmid |-> PMI_ID(60, 1, 43), indom |-> PM_INDOM_NULL, type |-> "PM_TYPE_U64", sem |-> "PM_SEM_INSTANT"],  \* PMID_MEM_UTIL_KSTACK
        [pmid |-> PMI_ID(60, 1, 27), indom |-> PM_INDOM_NULL, type |-> "PM_TYPE_U64", sem |-> "PM_SEM_INSTANT"],  \* PMID_MEM_UTIL_PGTABLE
        [pmid |-> PMI_ID(60, 1, 51), indom |-> PM_INDOM_NULL, type |-> "PM_TYPE_U64", sem |-> "PM_SEM_INSTANT"],  \* PMID_MEM_UTIL_VMALLOC
        [pmid |-> PMI_ID(60, 1, 21), indom |-> PM_INDOM_NULL, type |-> "PM_TYPE_U64", sem |-> "PM_SEM_INSTANT"],  \* PMID_MEM_UTIL_SWAPFREE
        [pmid |-> PMI_ID(60, 1, 20), indom |-> PM_INDOM_NULL, type |-> "PM_TYPE_U64", sem |-> "PM_SEM_INSTANT"],  \* PMID_MEM_UTIL_SWAPTOTAL
        [pmid |-> PMI_ID(60, 1, 13), indom |-> PM_INDOM_NULL, type |-> "PM_TYPE_U64", sem |-> "PM_SEM_INSTANT"] >>]  \* PMID_MEM_UTIL_SWAPCACHED

ktable_metrics ==
  [count |-> ENUM.KTABLE_METRIC_COUNT,
   names |->
     << "vfs.dentry.count",
        "vfs.files.count",
        "vfs.inodes.count",
        "kernel.all.nptys" >>,
   descs |->
     << [pmid |-> PMI_ID(60, 27, 5), indom |-> PM_INDOM_NULL, type |-> "PM_TYPE_U32", sem |-> "PM_SEM_INSTANT"],  \* PMID_KTABLE_DENTRYS
        [pmid |-> PMI_ID(60, 27, 0), indom |-> PM_INDOM_NULL, type |-> "PM_TYPE_U32", sem |-> "PM_SEM_INSTANT"],  \* PMID_KTABLE_FILES
        [pmid |-> PMI_ID(60, 27, 3), indom |-> PM_INDOM_NULL, type |-> "PM_TYPE_U32", sem |-> "PM_SEM_INSTANT"],  \* PMID_KTABLE_INODES
        [pmid |-> PMI_ID(60, 72, 3), indom |-> PM_INDOM_NULL, type |-> "PM_TYPE_U32", sem |-> "PM_SEM_INSTANT"] >>]  \* PMID_KTABLE_PTYS

kqueue_metrics ==
  [count |-> ENUM.KQUEUE_METRIC_COUNT,
   names |->
     << "kernel.all.runnable",
        "kernel.all.nprocs",
        "kernel.all.blocked",
        "kernel.all.load" >>,
   descs |->
     << [pmid |-> PMI_ID(60, 2, 2), indom |-> PM_INDOM_NULL, type |-> "PM_TYPE_U32", sem |-> "PM_SEM_INSTANT"],  \* PMI_ID(60, 2, 2)
        [pmid |-> PMI_ID(60, 2, 3), indom |-> PM_INDOM_NULL, type |-> "PM_TYPE_U32", sem |-> "PM_SEM_INSTANT"],  \* PMI_ID(60, 2, 3)
        [pmid |-> PMI_ID(60, 0, 16), indom |-> PM_INDOM_NULL, type |-> "PM_TYPE_U64", sem |-> "PM_SEM_INSTANT"],  \* PMI_ID(60, 0, 16)
        [pmid |-> PMI_ID(60, 2, 0), indom |-> PMI_INDOM(60, 2), type |-> "PM_TYPE_FLOAT", sem |-> "PM_SEM_INSTANT"] >>]  \* PMI_ID(60, 2, 0)

disk_metrics ==
  [count |-> ENUM.DISK_METRIC_COUNT,
   names |->
     << "disk.dev.read",
        "disk.dev.write",
        "disk.dev.total",
        "disk.dev.total_bytes",
        "disk.dev.read_bytes",
        "disk.dev.write_bytes",
        "disk.dev.discard_bytes",
        "disk.dev.read_rawactive",
        "disk.dev.write_rawactive",
        "disk.dev.total_rawactive",
        "disk.dev.discard_rawactive",
        "disk.dev.avactive",
        "disk.dev.aveq" >>,
   descs |->
     << [pmid |-> PMI_ID(60, 0, 4), indom |-> PMI_INDOM(60, 1), type |-> "PM_TYPE_U64", sem |-> "PM_SEM_COUNTER"],  \* PMID_DISK_PERDEV_READ
        [pmid |-> PMI_ID(60, 0, 5), indom |-> PMI_INDOM(60, 1), type |-> "PM_TYPE_U64", sem |-> "PM_SEM_COUNTER"],  \* PMID_DISK_PERDEV_WRITE
        [pmid |-> PMI_ID(60, 0, 28), indom |-> PMI_INDOM(60, 1), type |-> "PM_TYPE_U64", sem |-> "PM_SEM_COUNTER"],  \* PMID_DISK_PERDEV_TOTAL
        [pmid |-> PMI_ID(60, 0, 37), indom |-> PMI_INDOM(60, 1), type |-> "PM_TYPE_U64", sem |-> "PM_SEM_COUNTER"],  \* PMID_DISK_PERDEV_TOTALBYTES
        [pmid |-> PMI_ID(60, 0, 38), indom |-> PMI_INDOM(60, 1), type |-> "PM_TYPE_U64", sem |-> "PM_SEM_COUNTER"],  \* PMID_DISK_PERDEV_READBYTES
        [pmid |-> PMI_ID(60, 0, 39), indom |-> PMI_INDOM(60, 1), type |-> "PM_TYPE_U64", sem |-> "PM_SEM_COUNTER"],  \* PMID_DISK_PERDEV_WRITEBYTES
        [pmid |-> PMI_ID(60, 0, 90), indom |-> PMI_INDOM(60, 1), type |-> "PM_TYPE_U64", sem |-> "PM_SEM_COUNTER"],  \* PMID_DISK_PERDEV_DISCARDBYTES
        [pmid |-> PMI_ID(60, 0, 72), indom |-> PMI_INDOM(60, 1), type |-> "PM_TYPE_U32", sem |-> "PM_SEM_COUNTER"],  \* PMID_DISK_PERDEV_READACTIVE
        [pmid |-> PMI_ID(60, 0, 73), indom |-> PMI_INDOM(60, 1), type |-> "PM_TYPE_U32", sem |-> "PM_SEM_COUNTER"],  \* PMID_DISK_PERDEV_WRITEACTIVE
        [pmid |-> PMI_ID(60, 0, 79), indom |-> PMI_INDOM(60, 1), type |-> "PM_TYPE_U32", sem |-> "PM_SEM_COUNTER"],  \* PMID_DISK_PERDEV_TOTALACTIVE
        [pmid |-> PMI_ID(60, 0, 92), indom |-> PMI_INDOM(60, 1), type |-> "PM_TYPE_U32", sem |-> "PM_SEM_COUNTER"],  \* PMID_DISK_PERDEV_DISCARDACTIVE
        [pmid |-> PMI_ID(60, 0, 46), indom |-> PMI_INDOM(60, 1), type |-> "PM_TYPE_U32", sem |-> "PM_SEM_COUNTER"],  \* PMID_DISK_PERDEV_AVACTIVE
        [pmid |-> PMI_ID(60, 0, 47), indom |-> PMI_INDOM(60, 1), type |-> "PM_TYPE_U32", sem |-> "PM_SEM_COUNTER"] >>]  \* PMID_DISK_PERDEV_AVQUEUE

netdev_metrics ==
  [count |-> ENUM.NET_PERINTF_METRIC_COUNT,
   names |->
     << "network.interface.in.packets",
        "network.interface.out.packets",
        "network.interface.in.bytes",
        "network.interface.out.bytes",
        "network.interface.in.compressed",
        "network.interface.out.compressed",
        "network.interface.in.mcasts" >>,
   descs |->
     << [pmid |-> PMI_ID(60, 3, 1), indom |-> PMI_INDOM(60, 3), type |-> "PM_TYPE_U64", sem |-> "PM_SEM_COUNTER"],  \* PMID_NET_PERINTF_INPACKETS
        [pmid |-> PMI_ID(60, 3, 9), indom |-> PMI_INDOM(60, 3), type |-> "PM_TYPE_U64", sem |-> "PM_SEM_COUNTER"],  \* PMID_NET_PERINTF_OUTPACKETS
        [pmid |-> PMI_ID(60, 3, 0), indom |-> PMI_INDOM(60, 3), type |-> "PM_TYPE_U64", sem |-> "PM_SEM_COUNTER"],  \* PMID_NET_PERINTF_INBYTES
        [pmid |-> PMI_ID(60, 3, 8), indom |-> PMI_INDOM(60, 3), type |-> "PM_TYPE_U64", sem |-> "PM_SEM_COUNTER"],  \* PMID_NET_PERINTF_OUTBYTES
        [pmid |-> PMI_ID(60, 3, 6), indom |-> PMI_INDOM(60, 3), type |-> "PM_TYPE_U64", sem |-> "PM_SEM_COUNTER"],  \* PMID_NET_PERINTF_INCOMPRESS
        [pmid |-> PMI_ID(60, 3, 15), indom |-> PMI_INDOM(60, 3), type |-> "PM_TYPE_U64", sem |-> "PM_SEM_COUNTER"],  \* PMID_NET_PERINTF_OUTCOMPRESS
        [pmid |-> PMI_ID(60, 3, 7), indom |-> PMI_INDOM(60, 3), type |-> "PM_TYPE_U64", sem |-> "PM_SEM_COUNTER"] >>]  \* PMID_NET_PERINTF_INMULTICAST

netedev_metrics ==
  [count |-> ENUM.NET_EPERINTF_METRIC_COUNT,
   names |->
     << "network.interface.in.errors",
        "network.interface.out.errors",
        "network.interface.collisions",
        "network.interface.in.drops",
        "network.interface.out.drops",
        "network.interface.out.carrier",
        "network.interface.in.frame",
        "network.interface.in.fifo",
        "network.interface.out.fifo" >>,
   descs |->
     << [pmid |-> PMI_ID(60, 3, 2), indom |-> PMI_INDOM(60, 3), type |-> "PM_TYPE_U64", sem |-> "PM_SEM_COUNTER"],  \* PMID_NET_EPERINTF_INERRORS
        [pmid |-> PMI_ID(60, 3, 10), indom |-> PMI_INDOM(60, 3), type |-> "PM_TYPE_U64", sem |-> "PM_SEM_COUNTER"],  \* PMID_NET_EPERINTF_OUTERRORS
        [pmid |-> PMI_ID(60, 3, 13), indom |-> PMI_INDOM(60, 3), type |-> "PM_TYPE_U64", sem |-> "PM_SEM_COUNTER"],  \* PMID_NET_EPERINTF_COLLISIONS
        [pmid |-> PMI_ID(60, 3, 3), indom |-> PMI_INDOM(60, 3), type |-> "PM_TYPE_U64", sem |-> "PM_SEM_COUNTER"],  \* PMID_NET_EPERINTF_INDROPS
        [pmid |-> PMI_ID(60, 3, 11), indom |-> PMI_INDOM(60, 3), type |-> "PM_TYPE_U64", sem |-> "PM_SEM_COUNTER"],  \* PMID_NET_EPERINTF_OUTDROPS
        [pmid |-> PMI_ID(60, 3, 14), indom |-> PMI_INDOM(60, 3), type |-> "PM_TYPE_U64", sem |-> "PM_SEM_COUNTER"],  \* PMID_NET_EPERINTF_OUTCARRIER
        [pmid |-> PMI_ID(60, 3, 5), indom |-> PMI_INDOM(60, 3), type |-> "PM_TYPE_U64", sem |-> "PM_SEM_COUNTER"],  \* PMID_NET_EPERINTF_INFRAME
        [pmid |-> PMI_ID(60, 3, 4), indom |-> PMI_INDOM(60, 3), type |-> "PM_TYPE_U64", sem |-> "PM_SEM_COUNTER"],  \* PMID_NET_EPERINTF_INFIFO
        [pmid |-> PMI_ID(60, 3, 12), indom |-> PMI_INDOM(60, 3), type |-> "PM_TYPE_U64", sem |-> "PM_SEM_COUNTER"] >>]  \* PMID_NET_EPERINTF_OUTFIFO

serial_metrics ==
  [count |-> ENUM.SERIAL_METRIC_COUNT,
   names |->
     << "tty.serial.rx",
        "tty.serial.tx",
        "tty.serial.frame",
        "tty.serial.parity",
        "tty.serial.brk",
        "tty.serial.overrun" >>,
   descs |->
     << [pmid |-> 0, indom |-> PMI_INDOM(60, 35), type |-> "PM_TYPE_U32", sem |-> "PM_SEM_COUNTER"],  \* SERIAL_PERTTY_RX
        [pmid |-> 1, indom |-> PMI_INDOM(60, 35), type |-> "PM_TYPE_U32", sem |-> "PM_SEM_COUNTER"],  \* SERIAL_PERTTY_TX
        [pmid |-> 2, indom |-> PMI_INDOM(60, 35), type |-> "PM_TYPE_U32", sem |-> "PM_SEM_COUNTER"],  \* SERIAL_PERTTY_FRAME
        [pmid |-> 3, indom |-> PMI_INDOM(60, 35), type |-> "PM_TYPE_U32", sem |-> "PM_SEM_COUNTER"],  \* SERIAL_PERTTY_PARITY
        [pmid |-> 4, indom |-> PMI_INDOM(60, 35), type |-> "PM_TYPE_U32", sem |-> "PM_SEM_COUNTER"],  \* SERIAL_PERTTY_BRK
        [pmid |-> 5, indom |-> PMI_INDOM(60, 35), type |-> "PM_TYPE_U32", sem |-> "PM_SEM_COUNTER"] >>]  \* SERIAL_PERTTY_OVERRUN

nfsclient_metrics ==
  [count |-> ENUM.NFSCLIENT_METRIC_COUNT,
   names |->
     << "rpc.client.rpccnt",
        "rpc.client.rpcretrans",
        "nfs.client.reqs" >>,
   descs |->
     << [pmid |-> PMI_ID(60, 7, 20), indom |-> PM_INDOM_NULL, type |-> "PM_TYPE_U32", sem |-> "PM_SEM_COUNTER"],  \* PMID_NFSCLIENT_RPCCCNT
        [pmid |-> PMI_ID(60, 7, 21), indom |-> PM_INDOM_NULL, type |-> "PM_TYPE_U32", sem |-> "PM_SEM_COUNTER"],  \* PMID_NFSCLIENT_RPCRETRANS
        [pmid |-> PMI_ID(60, 7, 4), indom |-> PMI_INDOM(60, 7), type |-> "PM_TYPE_U32", sem |-> "PM_SEM_COUNTER"] >>]  \* PMID_NFSCLIENT_REQUESTS

nfsserver_metrics ==
  [count |-> ENUM.NFSSERVER_METRIC_COUNT,
   names |->
     << "rpc.server.rpccnt",
        "rpc.server.rpcbadclnt",
        "rpc.server.netcnt",
        "rpc.server.netudpcnt",
        "rpc.server.nettcpcnt",
        "rpc.server.rchits",
        "rpc.server.rcmisses",
        "nfs.server.reqs" >>,
   descs |->
     << [pmid |-> PMI_ID(60, 7, 30), indom |-> PM_INDOM_NULL, type |-> "PM_TYPE_U64", sem |-> "PM_SEM_COUNTER"],  \* PMID_NFSSERVER_RPCCNT
        [pmid |-> PMI_ID(60, 7, 34), indom |-> PM_INDOM_NULL, type |-> "PM_TYPE_U64", sem |-> "PM_SEM_COUNTER"],  \* PMID_NFSSERVER_RPCBADCLNT
        [pmid |-> PMI_ID(60, 7, 44), indom |-> PM_INDOM_NULL, type |-> "PM_TYPE_U64", sem |-> "PM_SEM_COUNTER"],  \* PMID_NFSSERVER_NETCNT
        [pmid |-> PMI_ID(60, 7, 45), indom |-> PM_INDOM_NULL, type |-> "PM_TYPE_U64", sem |-> "PM_SEM_COUNTER"],  \* PMID_NFSSERVER_NETUDPCNT
        [pmid |-> PMI_ID(60, 7, 46), indom |-> PM_INDOM_NULL, type |-> "PM_TYPE_U64", sem |-> "PM_SEM_COUNTER"],  \* PMID_NFSSERVER_NETTCPCNT
        [pmid |-> PMI_ID(60, 7, 35), indom |-> PM_INDOM_NULL, type |-> "PM_TYPE_U64", sem |-> "PM_SEM_COUNTER"],  \* PMID_NFSSERVER_RCHITS
        [pmid |-> PMI_ID(60, 7, 36), indom |-> PM_INDOM_NULL, type |-> "PM_TYPE_U64", sem |-> "PM_SEM_COUNTER"],  \* PMID_NFSSERVER_RCMISSES
        [pmid |-> PMI_ID(60, 7, 12), indom |-> PMI_INDOM(60, 7), type |-> "PM_TYPE_U64", sem |-> "PM_SEM_COUNTER"] >>]  \* PMID_NFSSERVER_REQUESTS

socket_metrics ==
  [count |-> ENUM.SOCKET_METRIC_COUNT,
   names |->
     << "network.sockstat.total",
        "network.sockstat.tcp.inuse",
        "network.sockstat.udp.inuse",
        "network.sockstat.raw.inuse",
        "network.sockstat.frag.inuse",
        "network.sockstat.tcp.tw" >>,
   descs |->
     << [pmid |-> PMI_ID(60, 11, 9), indom |-> PM_INDOM_NULL, type |-> "PM_TYPE_U32", sem |-> "PM_SEM_INSTANT"],  \* PMID_SOCKET_TOTAL
        [pmid |-> PMI_ID(60, 11, 0), indom |-> PM_INDOM_NULL, type |-> "PM_TYPE_U32", sem |-> "PM_SEM_INSTANT"],  \* PMID_SOCKET_TCPINUSE
        [pmid |-> PMI_ID(60, 11, 3), indom |-> PM_INDOM_NULL, type |-> "PM_TYPE_U32", sem |-> "PM_SEM_INSTANT"],  \* PMID_SOCKET_UDPINUSE
        [pmid |-> PMI_ID(60, 11, 6), indom |-> PM_INDOM_NULL, type |-> "PM_TYPE_U32", sem |-> "PM_SEM_INSTANT"],  \* PMID_SOCKET_RAWINUSE
        [pmid |-> PMI_ID(60, 11, 15), indom |-> PM_INDOM_NULL, type |-> "PM_TYPE_U32", sem |-> "PM_SEM_INSTANT"],  \* PMID_SOCKET_FRAGINUSE
        [pmid |-> PMI_ID(60, 11, 11), indom |-> PM_INDOM_NULL, type |-> "PM_TYPE_U32", sem |-> "PM_SEM_INSTANT"] >>]  \* PMID_SOCKET_TCPTW

net_ip_metrics ==
  [count |-> ENUM.NET_IP_METRIC_COUNT,
   names |->
     << "network.ip.inreceives",
        "network.ip.forwdatagrams",
        "network.ip.indelivers",
        "network.ip.outrequests",
        "network.ip.reasmreqds",
        "network.ip.reasmoks",
        "network.ip.fragoks",
        "network.ip.fragcreates" >>,
   descs |->
     << [pmid |-> PMI_ID(60, 14, 2), indom |-> PM_INDOM_NULL, type |-> "PM_TYPE_U64", sem |-> "PM_SEM_COUNTER"],  \* PMID_NET_IP_INRECEIVES
        [pmid |-> PMI_ID(60, 14, 5), indom |-> PM_INDOM_NULL, type |-> "PM_TYPE_U64", sem |-> "PM_SEM_COUNTER"],  \* PMID_NET_IP_FORWDATAGRAMS
        [pmid |-> PMI_ID(60, 14, 8), indom |-> PM_INDOM_NULL, type |-> "PM_TYPE_U64", sem |-> "PM_SEM_COUNTER"],  \* PMID_NET_IP_INDELIVERS
        [pmid |-> PMI_ID(60, 14, 9), indom |-> PM_INDOM_NULL, type |-> "PM_TYPE_U64", sem |-> "PM_SEM_COUNTER"],  \* PMID_NET_IP_OUTREQUESTS
        [pmid |-> PMI_ID(60, 14, 13), indom |-> PM_INDOM_NULL, type |-> "PM_TYPE_U64", sem |-> "PM_SEM_COUNTER"],  \* PMID_NET_IP_REASMREQDS
        [pmid |-> PMI_ID(60, 14, 14), indom |-> PM_INDOM_NULL, type |-> "PM_TYPE_U64", sem |-> "PM_SEM_COUNTER"],  \* PMID_NET_IP_REASMOKS
        [pmid |-> PMI_ID(60, 14, 16), indom |-> PM_INDOM_NULL, type |-> "PM_TYPE_U64", sem |-> "PM_SEM_COUNTER"],  \* PMID_NET_IP_FRAGOKS
        [pmid |-> PMI_ID(60, 14, 18), indom |-> PM_INDOM_NULL, type |-> "PM_TYPE_U64", sem |-> "PM_SEM_COUNTER"] >>]  \* PMID_NET_IP_FRAGCREATES

net_eip_metrics ==
  [count |-> ENUM.NET_EIP_METRIC_COUNT,
   names |->
     << "network.ip.inhdrerrors",
        "network.ip.inaddrerrors",
        "network.ip.inunknownprotos",
        "network.ip.indiscards",
        "network.ip.outdiscards",
        "network.ip.outnoroutes",
        "network.ip.reasmfails",
        "network.ip.fragfails" >>,
   descs |->
     << [pmid |-> PMI_ID(60, 14, 3), indom |-> PM_INDOM_NULL, type |-> "PM_TYPE_U64", sem |-> "PM_SEM_COUNTER"],  \* PMID_NET_EIP_INHDRERRORS
        [pmid |-> PMI_ID(60, 14, 4), indom |-> PM_INDOM_NULL, type |-> "PM_TYPE_U64", sem |-> "PM_SEM_COUNTER"],  \* PMID_NET_EIP_INADDRERRORS
        [pmid |-> PMI_ID(60, 14, 6), indom |-> PM_INDOM_NULL, type |-> "PM_TYPE_U64", sem |-> "PM_SEM_COUNTER"],  \* PMID_NET_EIP_INUNKNOWNPROTOS
        [pmid |-> PMI_ID(60, 14, 7), indom |-> PM_INDOM_NULL, type |-> "PM_TYPE_U64", sem |-> "PM_SEM_COUNTER"],  \* PMID_NET_EIP_INDISCARDS
        [pmid |-> PMI_ID(60, 14, 10), indom |-> PM_INDOM_NULL, type |-> "PM_TYPE_U64", sem |-> "PM_SEM_COUNTER"],  \* PMID_NET_EIP_OUTDISCARDS
        [pmid |-> PMI_ID(60, 14, 11), indom |-> PM_INDOM_NULL, type |-> "PM_TYPE_U64", sem |-> "PM_SEM_COUNTER"],  \* PMID_NET_EIP_OUTNOROUTES
        [pmid |-> PMI_ID(60, 14, 15), indom |-> PM_INDOM_NULL, type |-> "PM_TYPE_U64", sem |-> "PM_SEM_COUNTER"],  \* PMID_NET_EIP_REASMFAILS
        [pmid |-> PMI_ID(60, 14, 17), indom |-> PM_INDOM_NULL, type |-> "PM_TYPE_U64", sem |-> "PM_SEM_COUNTER"] >>]  \* PMID_NET_EIP_FRAGFAILS

net_icmp_metrics ==
  [count |-> ENUM.NET_ICMP_METRIC_COUNT,
   names |->
     << "network.icmp.inmsgs",
        "network.icmp.outmsgs",
        "network.icmp.inechos",
        "network.icmp.inechoreps",
        "network.icmp.outechos",
        "network.icmp.outechoreps",
        "network.icmp.intimestamps",
        "network.icmp.intimestampreps",
        "network.icmp.outtimestamps",
        "network.icmp.outtimestampreps",
        "network.icmp.inaddrmasks",
        "network.icmp.inaddrmaskreps",
        "network.icmp.outaddrmasks",
        "network.icmp.outaddrmaskreps" >>,
   descs |->
     << [pmid |-> PMI_ID(60, 14, 20), indom |-> PM_INDOM_NULL, type |-> "PM_TYPE_U64", sem |-> "PM_SEM_COUNTER"],  \* PMID_NET_ICMP_INMSGS
        [pmid |-> PMI_ID(60, 14, 33), indom |-> PM_INDOM_NULL, type |-> "PM_TYPE_U64", sem |-> "PM_SEM_COUNTER"],  \* PMID_NET_ICMP_OUTMSGS
        [pmid |-> PMI_ID(60, 14, 27), indom |-> PM_INDOM_NULL, type |-> "PM_TYPE_U64", sem |-> "PM_SEM_COUNTER"],  \* PMID_NET_ICMP_INECHOS
        [pmid |-> PMI_ID(60, 14, 28), indom |-> PM_INDOM_NULL, type |-> "PM_TYPE_U64", sem |-> "PM_SEM_COUNTER"],  \* PMID_NET_ICMP_INECHOREPS
        [pmid |-> PMI_ID(60, 14, 40), indom |-> PM_INDOM_NULL, type |-> "PM_TYPE_U64", sem |-> "PM_SEM_COUNTER"],  \* PMID_NET_ICMP_OUTECHOS
        [pmid |-> PMI_ID(60, 14, 41), indom |-> PM_INDOM_NULL, type |-> "PM_TYPE_U64", sem |-> "PM_SEM_COUNTER"],  \* PMID_NET_ICMP_OUTECHOREPS
        [pmid |-> PMI_ID(60, 14, 29), indom |-> PM_INDOM_NULL, type |-> "PM_TYPE_U64", sem |-> "PM_SEM_COUNTER"],  \* PMID_NET_ICMP_INTIMESTAMPS
        [pmid |-> PMI_ID(60, 14, 30), indom |-> PM_INDOM_NULL, type |-> "PM_TYPE_U64", sem |-> "PM_SEM_COUNTER"],  \* PMID_NET_ICMP_INTIMESTAMPREPS
        [pmid |-> PMI_ID(60, 14, 42), indom |-> PM_INDOM_NULL, type |-> "PM_TYPE_U64", sem |-> "PM_SEM_COUNTER"],  \* PMID_NET_ICMP_OUTTIMESTAMPS
        [pmid |-> PMI_ID(60, 14, 43), indom |-> PM_INDOM_NULL, type |-> "PM_TYPE_U64", sem |-> "PM_SEM_COUNTER"],  \* PMID_NET_ICMP_OUTTIMESTAMPREPS
        [pmid |-> PMI_ID(60, 14, 31), indom |-> PM_INDOM_NULL, type |-> "PM_TYPE_U64", sem |-> "PM_SEM_COUNTER"],  \* PMID_NET_ICMP_INADDRMASKS
        [pmid |-> PMI_ID(60, 14, 32), indom |-> PM_INDOM_NULL, type |-> "PM_TYPE_U64", sem |-> "PM_SEM_COUNTER"],  \* PMID_NET_ICMP_INADDRMASKREPS
        [pmid |-> PMI_ID(60, 14, 44), indom |-> PM_INDOM_NULL, type |-> "PM_TYPE_U64", sem |-> "PM_SEM_COUNTER"],  \* PMID_NET_ICMP_OUTADDRMASKS
        [pmid |-> PMI_ID(60, 14, 45), indom |-> PM_INDOM_NULL, type |-> "PM_TYPE_U64", sem |-> "PM_SEM_COUNTER"] >>]  \* PMID_NET_ICMP_OUTADDRMASKREPS

net_eicmp_metrics ==
  [count |-> ENUM.NET_EICMP_METRIC_COUNT,
   names |->
     << "network.icmp.inerrors",
        "network.icmp.outerrors",
        "network.icmp.indestunreachs",
        "network.icmp.outdestunreachs",
        "network.icmp.intimeexcds",
        "network.icmp.outtimeexcds",
        "network.icmp.inparmprobs",
        "network.icmp.outparmprobs",
        "network.icmp.insrcquenchs",
        "network.icmp.outsrcquenchs",
        "network.icmp.inredirects",
        "network.icmp.outredirects" >>,
   descs |->
     << [pmid |-> PMI_ID(60, 14, 21), indom |-> PM_INDOM_NULL, type |-> "PM_TYPE_U64", sem |-> "PM_SEM_COUNTER"],  \* PMID_NET_EICMP_INERRORS
        [pmid |-> PMI_ID(60, 14, 34), indom |-> PM_INDOM_NULL, type |-> "PM_TYPE_U64", sem |-> "PM_SEM_COUNTER"],  \* PMID_NET_EICMP_OUTERRORS
        [pmid |-> PMI_ID(60, 14, 22), indom |-> PM_INDOM_NULL, type |-> "PM_TYPE_U64", sem |-> "PM_SEM_COUNTER"],  \* PMID_NET_EICMP_INDESTUNREACHS
        [pmid |-> PMI_ID(60, 14, 35), indom |-> PM_INDOM_NULL, type |-> "PM_TYPE_U64", sem |-> "PM_SEM_COUNTER"],  \* PMID_NET_EICMP_OUTDESTUNREACHS
        [pmid |-> PMI_ID(60, 14, 23), indom |-> PM_INDOM_NULL, type |-> "PM_TYPE_U64", sem |-> "PM_SEM_COUNTER"],  \* PMID_NET_EICMP_INTIMEEXCDS
        [pmid |-> PMI_ID(60, 14, 36), indom |-> PM_INDOM_NULL, type |-> "PM_TYPE_U64", sem |-> "PM_SEM_COUNTER"],  \* PMID_NET_EICMP_OUTTIMEEXCDS
        [pmid |-> PMI_ID(60, 14, 24), indom |-> PM_INDOM_NULL, type |-> "PM_TYPE_U64", sem |-> "PM_SEM_COUNTER"],  \* PMID_NET_EICMP_INPARMPROBS
        [pmid |-> PMI_ID(60, 14, 37), indom |-> PM_INDOM_NULL, type |-> "PM_TYPE_U64", sem |-> "PM_SEM_COUNTER"],  \* PMID_NET_EICMP_OUTPARMPROBS
        [pmid |-> PMI_ID(60, 14, 25), indom |-> PM_INDOM_NULL, type |-> "PM_TYPE_U64", sem |-> "PM_SEM_COUNTER"],  \* PMID_NET_EICMP_INSRCQUENCHS
        [pmid |-> PMI_ID(60, 14, 38), indom |-> PM_INDOM_NULL, type |-> "PM_TYPE_U64", sem |-> "PM_SEM_COUNTER"],  \* PMID_NET_EICMP_OUTSRCQUENCHS
        [pmid |-> PMI_ID(60, 14, 26), indom |-> PM_INDOM_NULL, type |-> "PM_TYPE_U64", sem |-> "PM_SEM_COUNTER"],  \* PMID_NET_EICMP_INREDIRECTS
        [pmid |-> PMI_ID(60, 14, 39), indom |-> PM_INDOM_NULL, type |-> "PM_TYPE_U64", sem |-> "PM_SEM_COUNTER"] >>]  \* PMID_NET_EICMP_OUTREDIRECTS

net_tcp_metrics ==
  [count |-> ENUM.NET_TCP_METRIC_COUNT,
   names |->
     << "network.tcp.activeopens",
        "network.tcp.passiveopens",
        "network.tcp.insegs",
        "network.tcp.outsegs" >>,
   descs |->
     << [pmid |-> PMI_ID(60, 14, 54), indom |-> PM_INDOM_NULL, type |-> "PM_TYPE_U64", sem |-> "PM_SEM_COUNTER"],  \* PMID_NET_TCP_ACTIVEOPENS
        [pmid |-> PMI_ID(60, 14, 55), indom |-> PM_INDOM_NULL, type |-> "PM_TYPE_U64", sem |-> "PM_SEM_COUNTER"],  \* PMID_NET_TCP_PASSIVEOPENS
        [pmid |-> PMI_ID(60, 14, 59), indom |-> PM_INDOM_NULL, type |-> "PM_TYPE_U64", sem |-> "PM_SEM_COUNTER"],  \* PMID_NET_TCP_INSEGS
        [pmid |-> PMI_ID(60, 14, 60), indom |-> PM_INDOM_NULL, type |-> "PM_TYPE_U64", sem |-> "PM_SEM_COUNTER"] >>]  \* PMID_NET_TCP_OUTSEGS

net_etcp_metrics ==
  [count |-> ENUM.NET_ETCP_METRIC_COUNT,
   names |->
     << "network.tcp.attemptfails",
        "network.tcp.estabresets",
        "network.tcp.retranssegs",
        "network.tcp.inerrs",
        "network.tcp.outrsts" >>,
   descs |->
     << [pmid |-> PMI_ID(60, 14, 56), indom |-> PM_INDOM_NULL, type |-> "PM_TYPE_U64", sem |-> "PM_SEM_COUNTER"],  \* PMID_NET_ETCP_ATTEMPTFAILS
        [pmid |-> PMI_ID(60, 14, 57), indom |-> PM_INDOM_NULL, type |-> "PM_TYPE_U64", sem |-> "PM_SEM_COUNTER"],  \* PMID_NET_ETCP_ESTABRESETS
        [pmid |-> PMI_ID(60, 14, 61), indom |-> PM_INDOM_NULL, type |-> "PM_TYPE_U64", sem |-> "PM_SEM_COUNTER"],  \* PMID_NET_ETCP_RETRANSSEGS
        [pmid |-> PMI_ID(60, 14, 62), indom |-> PM_INDOM_NULL, type |-> "PM_TYPE_U64", sem |-> "PM_SEM_COUNTER"],  \* PMID_NET_ETCP_INERRS
        [pmid |-> PMI_ID(60, 14, 63), indom |-> PM_INDOM_NULL, type |-> "PM_TYPE_U64", sem |-> "PM_SEM_COUNTER"] >>]  \* PMID_NET_ETCP_OUTRSTS

net_udp_metrics ==
  [count |-> ENUM.NET_UDP_METRIC_COUNT,
   names |->
     << "network.udp.indatagrams",
        "network.udp.outdatagrams",
        "network.udp.noports",
        "network.udp.inerrors" >>,
   descs |->
     << [pmid |-> PMI_ID(60, 14, 70), indom |-> PM_INDOM_NULL, type |-> "PM_TYPE_U64", sem |-> "PM_SEM_COUNTER"],  \* PMID_NET_UDP_INDATAGRAMS
        [pmid |-> PMI_ID(60, 14, 74), indom |-> PM_INDOM_NULL, type |-> "PM_TYPE_U64", sem |-> "PM_SEM_COUNTER"],  \* PMID_NET_UDP_OUTDATAGRAMS
        [pmid |-> PMI_ID(60, 14, 71), indom |-> PM_INDOM_NULL, type |-> "PM_TYPE_U64", sem |-> "PM_SEM_COUNTER"],  \* PMID_NET_UDP_NOPORTS
        [pmid |-> PMI_ID(60, 14, 72), indom |-> PM_INDOM_NULL, type |-> "PM_TYPE_U64", sem |-> "PM_SEM_COUNTER"] >>]  \* PMID_NET_UDP_INERRORS

net_sock6_metrics ==
  [count |-> ENUM.NET_SOCK6_METRIC_COUNT,
   names |->
     << "network.sockstat.tcp6.inuse",
        "network.sockstat.udp6.inuse",
        "network.sockstat.raw6.inuse",
        "network.sockstat.frag6.inuse" >>,
   descs |->
     << [pmid |-> PMI_ID(60, 73, 0), indom |-> PM_INDOM_NULL, type |-> "PM_TYPE_U32", sem |-> "PM_SEM_INSTANT"],  \* PMI_ID(60, 73, 0)
        [pmid |-> PMI_ID(60, 73, 1), indom |-> PM_INDOM_NULL, type |-> "PM_TYPE_U32", sem |-> "PM_SEM_INSTANT"],  \* PMI_ID(60, 73, 1)
        [pmid |-> PMI_ID(60, 73, 3), indom |-> PM_INDOM_NULL, type |-> "PM_TYPE_U32", sem |-> "PM_SEM_INSTANT"],  \* PMI_ID(60, 73, 3)
        [pmid |-> PMI_ID(60, 73, 4), indom |-> PM_INDOM_NULL, type |-> "PM_TYPE_U32", sem |-> "PM_SEM_INSTANT"] >>]  \* PMI_ID(60, 73, 4)

net_ip6_metrics ==
  [count |-> ENUM.NET_IP6_METRIC_COUNT,
   names |->
     << "network.ip6.inreceives",
        "network.ip6.outforwdatagrams",
        "network.ip6.indelivers",
        "network.ip6.outrequests",
        "network.ip6.reasmreqds",
        "network.ip6.reasmoks",
        "network.ip6.inmcastpkts",
        "network.ip6.outmcastpkts",
        "network.ip6.fragoks",
        "network.ip6.fragcreates" >>,
   descs |->
     << [pmid |-> PMI_ID(60, 58, 0), indom |-> PM_INDOM_NULL, type |-> "PM_TYPE_U64", sem |-> "PM_SEM_COUNTER"],  \* PMID_NET_IP6_INRECEIVES
        [pmid |-> PMI_ID(60, 58, 9), indom |-> PM_INDOM_NULL, type |-> "PM_TYPE_U64", sem |-> "PM_SEM_COUNTER"],  \* PMID_NET_IP6_OUTFORWDATAGRAMS
        [pmid |-> PMI_ID(60, 58, 8), indom |-> PM_INDOM_NULL, type |-> "PM_TYPE_U64", sem |-> "PM_SEM_COUNTER"],  \* PMID_NET_IP6_INDELIVERS
        [pmid |-> PMI_ID(60, 58, 10), indom |-> PM_INDOM_NULL, type |-> "PM_TYPE_U64", sem |-> "PM_SEM_COUNTER"],  \* PMID_NET_IP6_OUTREQUESTS
        [pmid |-> PMI_ID(60, 58, 14), indom |-> PM_INDOM_NULL, type |-> "PM_TYPE_U64", sem |-> "PM_SEM_COUNTER"],  \* PMID_NET_IP6_REASMREQDS
        [pmid |-> PMI_ID(60, 58, 15), indom |-> PM_INDOM_NULL, type |-> "PM_TYPE_U64", sem |-> "PM_SEM_COUNTER"],  \* PMID_NET_IP6_REASMOKS
        [pmid |-> PMI_ID(60, 58, 20), indom |-> PM_INDOM_NULL, type |-> "PM_TYPE_U64", sem |-> "PM_SEM_COUNTER"],  \* PMID_NET_IP6_INMCASTPKTS
        [pmid |-> PMI_ID(60, 58, 21), indom |-> PM_INDOM_NULL, type |-> "PM_TYPE_U64", sem |-> "PM_SEM_COUNTER"],  \* PMID_NET_IP6_OUTMCASTPKTS
        [pmid |-> PMI_ID(60, 58, 17), indom |-> PM_INDOM_NULL, type |-> "PM_TYPE_U64", sem |-> "PM_SEM_COUNTER"],  \* PMID_NET_IP6_FRAGOKS
        [pmid |-> PMI_ID(60, 58, 19), indom |-> PM_INDOM_NULL, type |-> "PM_TYPE_U64", sem |-> "PM_SEM_COUNTER"] >>]  \* PMID_NET_IP6_FRAGCREATES

net_eip6_metrics ==
  [count |-> ENUM.NET_EIP6_METRIC_COUNT,
   names |->
     << "network.ip6.inhdrerrors",
        "network.ip6.inaddrerrors",
        "network.ip6.inunknownprotos",
        "network.ip6.intoobigerrors",
        "network.ip6.indiscards",
        "network.ip6.outdiscards",
        "network.ip6.innoroutes",
        "network.ip6.outnoroutes",
        "network.ip6.reasmfails",
        "network.ip6.fragfails",
        "network.ip6.intruncatedpkts" >>,
   descs |->
     << [pmid |-> PMI_ID(60, 58, 1), indom |-> PM_INDOM_NULL, type |-> "PM_TYPE_U64", sem |-> "PM_SEM_COUNTER"],  \* PMID_NET_EIP6_INHDRERRORS
        [pmid |-> PMI_ID(60, 58, 4), indom |-> PM_INDOM_NULL, type |-> "PM_TYPE_U64", sem |-> "PM_SEM_COUNTER"],  \* PMID_NET_EIP6_INADDRERRORS
        [pmid |-> PMI_ID(60, 58, 5), indom |-> PM_INDOM_NULL, type |-> "PM_TYPE_U64", sem |-> "PM_SEM_COUNTER"],  \* PMID_NET_EIP6_INUNKNOWNPROTOS
        [pmid |-> PMI_ID(60, 58, 2), indom |-> PM_INDOM_NULL, type |-> "PM_TYPE_U64", sem |-> "PM_SEM_COUNTER"],  \* PMID_NET_EIP6_INTOOBIGERRORS
        [pmid |-> PMI_ID(60, 58, 7), indom |-> PM_INDOM_NULL, type |-> "PM_TYPE_U64", sem |-> "PM_SEM_COUNTER"],  \* PMID_NET_EIP6_INDISCARDS
        [pmid |-> PMI_ID(60, 58, 11), indom |-> PM_INDOM_NULL, type |-> "PM_TYPE_U64", sem |-> "PM_SEM_COUNTER"],  \* PMID_NET_EIP6_OUTDISCARDS
        [pmid |-> PMI_ID(60, 58, 3), indom |-> PM_INDOM_NULL, type |-> "PM_TYPE_U64", sem |-> "PM_SEM_COUNTER"],  \* PMID_NET_EIP6_INNOROUTES
        [pmid |-> PMI_ID(60, 58, 12), indom |-> PM_INDOM_NULL, type |-> "PM_TYPE_U64", sem |-> "PM_SEM_COUNTER"],  \* PMID_NET_EIP6_OUTNOROUTES
        [pmid |-> PMI_ID(60, 58, 16), indom |-> PM_INDOM_NULL, type |-> "PM_TYPE_U64", sem |-> "PM_SEM_COUNTER"],  \* PMID_NET_EIP6_REASMFAILS
        [pmid |-> PMI_ID(60, 58, 18), indom |-> PM_INDOM_NULL, type |-> "PM_TYPE_U64", sem |-> "PM_SEM_COUNTER"],  \* PMID_NET_EIP6_FRAGFAILS
        [pmid |-> PMI_ID(60, 58, 6), indom |-> PM_INDOM_NULL, type |-> "PM_TYPE_U64", sem |-> "PM_SEM_COUNTER"] >>]  \* PMID_NET_EIP6_INTRUNCATEDPKTS

net_icmp6_metrics ==
  [count |-> ENUM.NET_ICMP6_METRIC_COUNT,
   names |->
     << "network.icmp6.inmsgs",
        "network.icmp6.outmsgs",
        "network.icmp6.inechos",
        "network.icmp6.inechoreplies",
        "network.icmp6.outechoreplies",
        "network.icmp6.ingroupmembqueries",
        "network.icmp6.ingroupmembresponses",
        "network.icmp6.outgroupmembresponses",
        "network.icmp6.ingroupmembreductions",
        "network.icmp6.outgroupmembreductions",
        "network.icmp6.inroutersolicits",
        "network.icmp6.outroutersolicits",
        "network.icmp6.inrouteradvertisements",
        "network.icmp6.inneighborsolicits",
        "network.icmp6.outneighborsolicits",
        "network.icmp6.inneighboradvertisements",
        "network.icmp6.outneighboradvertisements" >>,
   descs |->
     << [pmid |-> PMI_ID(60, 58, 32), indom |-> PM_INDOM_NULL, type |-> "PM_TYPE_U64", sem |-> "PM_SEM_COUNTER"],  \* PMID_NET_ICMP6_INMSGS
        [pmid |-> PMI_ID(60, 58, 34), indom |-> PM_INDOM_NULL, type |-> "PM_TYPE_U64", sem |-> "PM_SEM_COUNTER"],  \* PMID_NET_ICMP6_OUTMSGS
        [pmid |-> PMI_ID(60, 58, 41), indom |-> PM_INDOM_NULL, type |-> "PM_TYPE_U64", sem |-> "PM_SEM_COUNTER"],  \* PMID_NET_ICMP6_INECHOS
        [pmid |-> PMI_ID(60, 58, 42), indom |-> PM_INDOM_NULL, type |-> "PM_TYPE_U64", sem |-> "PM_SEM_COUNTER"],  \* PMID_NET_ICMP6_INECHOREPLIES
        [pmid |-> PMI_ID(60, 58, 57), indom |-> PM_INDOM_NULL, type |-> "PM_TYPE_U64", sem |-> "PM_SEM_COUNTER"],  \* PMID_NET_ICMP6_OUTECHOREPLIES
        [pmid |-> PMI_ID(60, 58, 43), indom |-> PM_INDOM_NULL, type |-> "PM_TYPE_U64", sem |-> "PM_SEM_COUNTER"],  \* PMID_NET_ICMP6_INGROUPMEMBQUERIES
        [pmid |-> PMI_ID(60, 58, 44), indom |-> PM_INDOM_NULL, type |-> "PM_TYPE_U64", sem |-> "PM_SEM_COUNTER"],  \* PMID_NET_ICMP6_INGROUPMEMBRESPONSES
        [pmid |-> PMI_ID(60, 58, 59), indom |-> PM_INDOM_NULL, type |-> "PM_TYPE_U64", sem |-> "PM_SEM_COUNTER"],  \* PMID_NET_ICMP6_OUTGROUPMEMBRESPONSES
        [pmid |-> PMI_ID(60, 58, 45), indom |-> PM_INDOM_NULL, type |-> "PM_TYPE_U64", sem |-> "PM_SEM_COUNTER"],  \* PMID_NET_ICMP6_INGROUPMEMBREDUCTIONS
        [pmid |-> PMI_ID(60, 58, 60), indom |-> PM_INDOM_NULL, type |-> "PM_TYPE_U64", sem |-> "PM_SEM_COUNTER"],  \* PMID_NET_ICMP6_OUTGROUPMEMBREDUCTIONS
        [pmid |-> PMI_ID(60, 58, 46), indom |-> PM_INDOM_NULL, type |-> "PM_TYPE_U64", sem |-> "PM_SEM_COUNTER"],  \* PMID_NET_ICMP6_INROUTERSOLICITS
        [pmid |-> PMI_ID(60, 58, 61), indom |-> PM_INDOM_NULL, type |-> "PM_TYPE_U64", sem |-> "PM_SEM_COUNTER"],  \* PMID_NET_ICMP6_OUTROUTERSOLICITS
        [pmid |-> PMI_ID(60, 58, 47), indom |-> PM_INDOM_NULL, type |-> "PM_TYPE_U64", sem |-> "PM_SEM_COUNTER"],  \* PMID_NET_ICMP6_INROUTERADVERTISEMENTS
        [pmid |-> PMI_ID(60, 58, 48), indom |-> PM_INDOM_NULL, type |-> "PM_TYPE_U64", sem |-> "PM_SEM_COUNTER"],  \* PMID_NET_ICMP6_INNEIGHBORSOLICITS
        [pmid |-> PMI_ID(60, 58, 63), indom |-> PM_INDOM_NULL, type |-> "PM_TYPE_U64", sem |-> "PM_SEM_COUNTER"],  \* PMID_NET_ICMP6_OUTNEIGHBORSOLICITS
        [pmid |-> PMI_ID(60, 58, 49), indom |-> PM_INDOM_NULL, type |-> "PM_TYPE_U64", sem |-> "PM_SEM_COUNTER"],  \* PMID_NET_ICMP6_INNEIGHBORADVERTISEMENTS
        [pmid |-> PMI_ID(60, 58, 64), indom |-> PM_INDOM_NULL, type |-> "PM_TYPE_U64", sem |-> "PM_SEM_COUNTER"] >>]  \* PMID_NET_ICMP6_OUTNEIGHBORADVERTISEMENTS

net_eicmp6_metrics ==
  [count |-> ENUM.NET_EICMP6_METRIC_COUNT,
   names |->
     << "network.icmp6.inerrors",
        "network.icmp6.indestunreachs",
        "network.icmp6.outdestunreachs",
        "network.icmp6.intimeexcds",
        "network.icmp6.outtimeexcds",
        "network.icmp6.inparmproblems",
        "network.icmp6.outparmproblems",
        "network.icmp6.inredirects",
        "network.icmp6.outredirects",
        "network.icmp6.inpkttoobigs",
        "network.icmp6.outpkttoobigs" >>,
   descs |->
     << [pmid |-> PMI_ID(60, 58, 33), indom |-> PM_INDOM_NULL, type |-> "PM_TYPE_U64", sem |-> "PM_SEM_COUNTER"],  \* PMID_NET_EICMP6_INERRORS
        [pmid |-> PMI_ID(60, 58, 37), indom |-> PM_INDOM_NULL, type |-> "PM_TYPE_U64", sem |-> "PM_SEM_COUNTER"],  \* PMID_NET_EICMP6_INDESTUNREACHS
        [pmid |-> PMI_ID(60, 58, 52), indom |-> PM_INDOM_NULL, type |-> "PM_TYPE_U64", sem |-> "PM_SEM_COUNTER"],  \* PMID_NET_EICMP6_OUTDESTUNREACHS
        [pmid |-> PMI_ID(60, 58, 39), indom |-> PM_INDOM_NULL, type |-> "PM_TYPE_U64", sem |-> "PM_SEM_COUNTER"],  \* PMID_NET_EICMP6_INTIMEEXCDS
        [pmid |-> PMI_ID(60, 58, 54), indom |-> PM_INDOM_NULL, type |-> "PM_TYPE_U64", sem |-> "PM_SEM_COUNTER"],  \* PMID_NET_EICMP6_OUTTIMEEXCDS
        [pmid |-> PMI_ID(60, 58, 40), indom |-> PM_INDOM_NULL, type |-> "PM_TYPE_U64", sem |-> "PM_SEM_COUNTER"],  \* PMID_NET_EICMP6_INPARMPROBLEMS
        [pmid |-> PMI_ID(60, 58, 55), indom |-> PM_INDOM_NULL, type |-> "PM_TYPE_U64", sem |-> "PM_SEM_COUNTER"],  \* PMID_NET_EICMP6_OUTPARMPROBLEMS
        [pmid |-> PMI_ID(60, 58, 50), indom |-> PM_INDOM_NULL, type |-> "PM_TYPE_U64", sem |-> "PM_SEM_COUNTER"],  \* PMID_NET_EICMP6_INREDIRECTS
        [pmid |-> PMI_ID(60, 58, 65), indom |-> PM_INDOM_NULL, type |-> "PM_TYPE_U64", sem |-> "PM_SEM_COUNTER"],  \* PMID_NET_EICMP6_OUTREDIRECTS
        [pmid |-> PMI_ID(60, 58, 38), indom |-> PM_INDOM_NULL, type |-> "PM_TYPE_U64", sem |-> "PM_SEM_COUNTER"],  \* PMID_NET_EICMP6_INPKTTOOBIGS
        [pmid |-> PMI_ID(60, 58, 53), indom |-> PM_INDOM_NULL, type |-> "PM_TYPE_U64", sem |-> "PM_SEM_COUNTER"] >>]  \* PMID_NET_EICMP6_OUTPKTTOOBIGS

net_udp6_metrics ==
  [count |-> ENUM.NET_UDP6_METRIC_COUNT,
   names |->
     << "network.udp6.indatagrams",
        "network.udp6.outdatagrams",
        "network.udp6.noports",
        "network.udp6.inerrors" >>,
   descs |->
     << [pmid |-> PMI_ID(60, 58, 67), indom |-> PM_INDOM_NULL, type |-> "PM_TYPE_U64", sem |-> "PM_SEM_COUNTER"],  \* PMID_NET_UDP6_INDATAGRAMS
        [pmid |-> PMI_ID(60, 58, 70), indom |-> PM_INDOM_NULL, type |-> "PM_TYPE_U64", sem |-> "PM_SEM_COUNTER"],  \* PMID_NET_UDP6_OUTDATAGRAMS
        [pmid |-> PMI_ID(60, 58, 68), indom |-> PM_INDOM_NULL, type |-> "PM_TYPE_U64", sem |-> "PM_SEM_COUNTER"],  \* PMID_NET_UDP6_NOPORTS
        [pmid |-> PMI_ID(60, 58, 69), indom |-> PM_INDOM_NULL, type |-> "PM_TYPE_U64", sem |-> "PM_SEM_COUNTER"] >>]  \* PMID_NET_UDP6_INERRORS

mem_huge_metrics ==
  [count |-> ENUM.MEM_HUGE_METRIC_COUNT,
   names |->
     << "mem.util.hugepagesTotalBytes",
        "mem.util.hugepagesFreeBytes",
        "mem.util.hugepagesRsvdBytes",
        "mem.util.hugepagesSurpBytes" >>,
   descs |->
     << [pmid |-> PMI_ID(60, 1, 60), indom |-> PM_INDOM_NULL, type |-> "PM_TYPE_U64", sem |-> "PM_SEM_INSTANT"],  \* PMID_MEM_HUGE_TOTALBYTES
        [pmid |-> PMI_ID(60, 1, 61), indom |-> PM_INDOM_NULL, type |-> "PM_TYPE_U64", sem |-> "PM_SEM_INSTANT"],  \* PMID_MEM_HUGE_FREEBYTES
        [pmid |-> PMI_ID(60, 1, 62), indom |-> PM_INDOM_NULL, type |-> "PM_TYPE_U64", sem |-> "PM_SEM_INSTANT"],  \* PMID_MEM_HUGE_RSVDBYTES
        [pmid |-> PMI_ID(60, 1, 63), indom |-> PM_INDOM_NULL, type |-> "PM_TYPE_U64", sem |-> "PM_SEM_INSTANT"] >>]  \* PMID_MEM_HUGE_SURPBYTES

power_fan_metrics ==
  [count |-> ENUM.POWER_FAN_METRIC_COUNT,
   names |->
     << "power.fan.rpm",
        "power.fan.drpm",
        "power.fan.device" >>,
   descs |->
     << [pmid |-> PMI_ID(34, 0, 0), indom |-> PMI_INDOM(34, 0), type |-> "PM_TYPE_U64", sem |-> "PM_SEM_INSTANT"],  \* PMID_POWER_FAN_RPM
        [pmid |-> PMI_ID(34, 0, 1), indom |-> PMI_INDOM(34, 0), type |-> "PM_TYPE_U64", sem |-> "PM_SEM_INSTANT"],  \* PMID_POWER_FAN_DRPM
        [pmid |-> PMI_ID(34, 0, 2), indom |-> PMI_INDOM(34, 0), type |-> "PM_TYPE_STRING", sem |-> "PM_SEM_DISCRETE"] >>]  \* PMID_POWER_FAN_DEVICE

power_temp_metrics ==
  [count |-> ENUM.POWER_TEMP_METRIC_COUNT,
   names |->
     << "power.temp.celsius",
        "power.temp.percent",
        "power.temp.device" >>,
   descs |->
     << [pmid |-> PMI_ID(34, 1, 0), indom |-> PMI_INDOM(34, 1), type |-> "PM_TYPE_FLOAT", sem |-> "PM_SEM_INSTANT"],  \* PMID_POWER_TEMP_CELSIUS
        [pmid |-> PMI_ID(34, 1, 1), indom |-> PMI_INDOM(34, 1), type |-> "PM_TYPE_FLOAT", sem |-> "PM_SEM_INSTANT"],  \* PMID_POWER_TEMP_PERCENT
        [pmid |-> PMI_ID(34, 1, 2), indom |-> PMI_INDOM(34, 1), type |-> "PM_TYPE_STRING", sem |-> "PM_SEM_DISCRETE"] >>]  \* PMID_POWER_TEMP_DEVICE

power_in_metrics ==
  [count |-> ENUM.POWER_IN_METRIC_COUNT,
   names |->
     << "power.in.voltage",
        "power.in.percent",
        "power.in.device" >>,
   descs |->
     << [pmid |-> PMI_ID(34, 2, 0), indom |-> PMI_INDOM(34, 2), type |-> "PM_TYPE_FLOAT", sem |-> "PM_SEM_INSTANT"],  \* PMID_POWER_IN_VOLTAGE
        [pmid |-> PMI_ID(34, 2, 1), indom |-> PMI_INDOM(34, 2), type |-> "PM_TYPE_FLOAT", sem |-> "PM_SEM_INSTANT"],  \* PMID_POWER_IN_PERCENT
        [pmid |-> PMI_ID(34, 2, 2), indom |-> PMI_INDOM(34, 2), type |-> "PM_TYPE_STRING", sem |-> "PM_SEM_DISCRETE"] >>]  \* PMID_POWER_IN_DEVICE

power_bat_metrics ==
  [count |-> ENUM.POWER_BAT_METRIC_COUNT,
   names |->
     << "power.bat.capacity",
        "power.bat.status" >>,
   descs |->
     << [pmid |-> PMI_ID(34, 4, 0), indom |-> PMI_INDOM(34, 4), type |-> "PM_TYPE_U32", sem |-> "PM_SEM_INSTANT"],  \* PMID_POWER_BAT_CAPACITY
        [pmid |-> PMI_ID(34, 4, 1), indom |-> PMI_INDOM(34, 4), type |-> "PM_TYPE_STRING", sem |-> "PM_SEM_INSTANT"] >>]  \* PMID_POWER_BAT_STATUS

power_usb_metrics ==
  [count |-> ENUM.POWER_USB_METRIC_COUNT,
   names |->
     << "power.usb.bus",
        "power.usb.vendorId",
        "power.usb.productId",
        "power.usb.maxpower",
        "power.usb.manufacturer",
        "power.usb.productName" >>,
   descs |->
     << [pmid |-> PMI_ID(34, 3, 0), indom |-> PMI_INDOM(34, 3), type |-> "PM_TYPE_U32", sem |-> "PM_SEM_DISCRETE"],  \* PMID_POWER_USB_BUS
        [pmid |-> PMI_ID(34, 3, 1), indom |-> PMI_INDOM(34, 3), type |-> "PM_TYPE_STRING", sem |-> "PM_SEM_DISCRETE"],  \* PMID_POWER_USB_VENDORID
        [pmid |-> PMI_ID(34, 3, 2), indom |-> PMI_INDOM(34, 3), type |-> "PM_TYPE_STRING", sem |-> "PM_SEM_DISCRETE"],  \* PMID_POWER_USB_PRODUCTID
        [pmid |-> PMI_ID(34, 3, 3), indom |-> PMI_INDOM(34, 3), type |-> "PM_TYPE_U32", sem |-> "PM_SEM_DISCRETE"],  \* PMID_POWER_USB_MAXPOWER
        [pmid |-> PMI_ID(34, 3, 4), indom |-> PMI_INDOM(34, 3), type |-> "PM_TYPE_STRING", sem |-> "PM_SEM_DISCRETE"],  \* PMID_POWER_USB_MANUFACTURER
        [pmid |-> PMI_ID(34, 3, 5), indom |-> PMI_INDOM(34, 3), type |-> "PM_TYPE_STRING", sem |-> "PM_SEM_DISCRETE"] >>]  \* PMID_POWER_USB_PRODUCTNAME

filesys_metrics ==
  [count |-> ENUM.FILESYS_METRIC_COUNT,
   names |->
     << "filesys.capacity",
        "filesys.free",
        "filesys.used",
        "filesys.full",
        "filesys.maxfiles",
        "filesys.freefiles",
        "filesys.usedfiles",
        "filesys.avail" >>,
   descs |->
     << [pmid |-> PMI_ID(60, 5, 1), indom |-> PMI_INDOM(60, 5), type |-> "PM_TYPE_U64", sem |-> "PM_SEM_INSTANT"],  \* PMID_FILESYS_CAPACITY
        [pmid |-> PMI_ID(60, 5, 3), indom |-> PMI_INDOM(60, 5), type |-> "PM_TYPE_U64", sem |-> "PM_SEM_INSTANT"],  \* PMID_FILESYS_FREE
        [pmid |-> PMI_ID(60, 5, 2), indom |-> PMI_INDOM(60, 5), type |-> "PM_TYPE_U64", sem |-> "PM_SEM_INSTANT"],  \* PMID_FILESYS_USED
        [pmid |-> PMI_ID(60, 5, 8), indom |-> PMI_INDOM(60, 5), type |-> "PM_TYPE_DOUBLE", sem |-> "PM_SEM_INSTANT"],  \* PMID_FILESYS_FULL
        [pmid |-> PMI_ID(60, 5, 4), indom |-> PMI_INDOM(60, 5), type |-> "PM_TYPE_U64", sem |-> "PM_SEM_INSTANT"],  \* PMID_FILESYS_MAXFILES
        [pmid |-> PMI_ID(60, 5, 6), indom |-> PMI_INDOM(60, 5), type |-> "PM_TYPE_U64", sem |-> "PM_SEM_INSTANT"],  \* PMID_FILESYS_FREEFILES
        [pmid |-> PMI_ID(60, 5, 5), indom |-> PMI_INDOM(60, 5), type |-> "PM_TYPE_U64", sem |-> "PM_SEM_INSTANT"],  \* PMID_FILESYS_USEDFILES
        [pmid |-> PMI_ID(60, 5, 10), indom |-> PMI_INDOM(60, 5), type |-> "PM_TYPE_U64", sem |-> "PM_SEM_INSTANT"] >>]  \* PMID_FILESYS_AVAIL

fchost_metrics ==
  [count |-> ENUM.FCHOST_METRIC_COUNT,
   names |->
     << "fchost.in.frames",
        "fchost.out.frames",
        "fchost.in.bytes",
        "fchost.out.bytes" >>,
   descs |->
     << [pmid |-> PMI_ID(60, 91, 0), indom |-> PMI_INDOM(60, 39), type |-> "PM_TYPE_U64", sem |-> "PM_SEM_COUNTER"],  \* PMID_FCHOST_INFRAMES
        [pmid |-> PMI_ID(60, 91, 1), indom |-> PMI_INDOM(60, 39), type |-> "PM_TYPE_U64", sem |-> "PM_SEM_COUNTER"],  \* PMID_FCHOST_OUTFRAMES
        [pmid |-> PMI_ID(60, 91, 2), indom |-> PMI_INDOM(60, 39), type |-> "PM_TYPE_U64", sem |-> "PM_SEM_COUNTER"],  \* PMID_FCHOST_INBYTES
        [pmid |-> PMI_ID(60, 91, 3), indom |-> PMI_INDOM(60, 39), type |-> "PM_TYPE_U64", sem |-> "PM_SEM_COUNTER"] >>]  \* PMID_FCHOST_OUTBYTES

psi_cpu_metrics ==
  [count |-> ENUM.PSI_CPU_METRIC_COUNT,
   names |->
     << "kernel.all.pressure.cpu.some.total",
        "kernel.all.pressure.cpu.some.avg" >>,
   descs |->
     << [pmid |-> PMI_ID(60, 83, 1), indom |-> PM_INDOM_NULL, type |-> "PM_TYPE_U64", sem |-> "PM_SEM_COUNTER"],  \* PMID_PSI_CPU_SOMETOTAL
        [pmid |-> PMI_ID(60, 83, 0), indom |-> 0, type |-> "PM_TYPE_FLOAT", sem |-> "PM_SEM_INSTANT"] >>]  \* PMID_PSI_CPU_SOMEAVG

psi_io_metrics ==
  [count |-> ENUM.PSI_IO_METRIC_COUNT,
   names |->
     << "kernel.all.pressure.io.some.total",
        "kernel.all.pressure.io.some.avg",
        "kernel.all.pressure.io.full.total",
        "kernel.all.pressure.io.full.avg" >>,
   descs |->
     << [pmid |-> PMI_ID(60, 85, 1), indom |-> PM_INDOM_NULL, type |-> "PM_TYPE_U64", sem |-> "PM_SEM_COUNTER"],  \* PMID_PSI_IO_SOMETOTAL
        [pmid |-> PMI_ID(60, 85, 0), indom |-> PMI_INDOM(60, 37), type |-> "PM_TYPE_FLOAT", sem |-> "PM_SEM_INSTANT"],  \* PMID_PSI_IO_SOMEAVG
        [pmid |-> PMI_ID(60, 85, 3), indom |-> PM_INDOM_NULL, type |-> "PM_TYPE_U64", sem |-> "PM_SEM_COUNTER"],  \* PMID_PSI_IO_FULLTOTAL
        [pmid |-> PMI_ID(60, 85, 2), indom |-> PMI_INDOM(60, 37), type |-> "PM_TYPE_FLOAT", sem |-> "PM_SEM_INSTANT"] >>]  \* PMID_PSI_IO_FULLAVG

psi_mem_metrics ==
  [count |-> ENUM.PSI_MEM_METRIC_COUNT,
   names |->
     << "kernel.all.pressure.mem.some.total",
        "kernel.all.pressure.mem.some.avg",
        "kernel.all.pressure.mem.full.total",
        "kernel.all.pressure.mem.full.avg" >>,
   descs |->
     << [pmid |-> PMI_ID(60, 84, 1), indom |-> PM_INDOM_NULL, type |-> "PM_TYPE_U64", sem |-> "PM_SEM_COUNTER"],  \* PMID_PSI_MEM_SOMETOTAL
        [pmid |-> PMI_ID(60, 84, 0), indom |-> PMI_INDOM(60, 37), type |-> "PM_TYPE_FLOAT", sem |-> "PM_SEM_INSTANT"],  \* PMID_PSI_MEM_SOMEAVG
        [pmid |-> PMI_ID(60, 84, 3), indom |-> PM_INDOM_NULL, type |-> "PM_TYPE_U64", sem |-> "PM_SEM_COUNTER"],  \* PMID_PSI_MEM_FULLTOTAL
        [pmid |-> PMI_ID(60, 84, 2), indom |-> PMI_INDOM(60, 37), type |-> "PM_TYPE_FLOAT", sem |-> "PM_SEM_INSTANT"] >>]  \* PMID_PSI_MEM_FULLAVG

(* The catalog bound to each activity (STATS_*_METRICS), and the two header catalogs. *)
metrics ==
  [ A_CPU |-> cpu_metrics,
    A_PWR_CPU |-> power_cpu_metrics,
    A_NET_SOFT |-> softnet_metrics,
    A_PCSW |-> pcsw_metrics,
    A_IRQ |-> irq_metrics,
    A_SWAP |-> swap_metrics,
    A_PAGE |-> paging_metrics,
    A_IO |-> io_metrics,
    A_MEMORY |-> mem_metrics,
    A_KTABLES |-> ktable_metrics,
    A_QUEUE |-> kqueue_metrics,
    A_DISK |-> disk_metrics,
    A_NET_DEV |-> netdev_metrics,
    A_NET_EDEV |-> netedev_metrics,
    A_SERIAL |-> serial_metrics,
    A_NET_SOCK |-> socket_metrics,
    A_NET_IP |-> net_ip_metrics,
    A_NET_EIP |-> net_eip_metrics,
    A_NET_NFS |-> nfsclient_metrics,
    A_NET_NFSD |-> nfsserver_metrics,
    A_NET_ICMP |-> net_icmp_metrics,
    A_NET_EICMP |-> net_eicmp_metrics,
    A_NET_TCP |-> net_tcp_metrics,
    A_NET_ETCP |-> net_etcp_metrics,
    A_NET_UDP |-> net_udp_metrics,
    A_NET_SOCK6 |-> net_sock6_metrics,
    A_NET_IP6 |-> net_ip6_metrics,
    A_NET_EIP6 |-> net_eip6_metrics,
    A_NET_ICMP6 |-> net_icmp6_metrics,
    A_NET_EICMP6 |-> net_eicmp6_metrics,
    A_NET_UDP6 |-> net_udp6_metrics,
    A_HUGE |-> mem_huge_metrics,
    A_PWR_FAN |-> power_fan_metrics,
    A_PWR_TEMP |-> power_temp_metrics,
    A_PWR_IN |-> power_in_metrics,
    A_PWR_BAT |-> power_bat_metrics,
    A_PWR_USB |-> power_usb_metrics,
    A_FS |-> filesys_metrics,
    A_NET_FC |-> fchost_metrics,
    A_PSI_CPU |-> psi_cpu_metrics,
    A_PSI_IO |-> psi_io_metrics,
    A_PSI_MEM |-> psi_mem_metrics,
    FILE_HEADER |-> file_header_metrics,
    RECORD_HEADER |-> record_header_metrics ]

(* The case blocks of the switch of pcp_read_stats, in source order. *)
pcp_read_stats_switch ==
  << [pmids |-> {"PMID_FILE_HEADER_CPU_COUNT", "PMID_FILE_HEADER_KERNEL_HERTZ", "PMID_FILE_HEADER_UNAME_RELEASE", "PMID_FILE_HEADER_UNAME_SYSNAME", "PMID_FILE_HEADER_UNAME_NODENAME", "PMID_FILE_HEADER_UNAME_MACHINE"},
      a |-> "FILE_HEADER", reader |-> "pcp_read_file_header_stats"],
     [pmids |-> {"PMID_RECORD_HEADER_KERNEL_UPTIME"},
      a |-> "RECORD_HEADER", reader |-> "pcp_read_record_header_stats"],
     [pmids |-> {"PMID_CPU_ALLCPU_USER", "PMID_CPU_ALLCPU_SYS", "PMID_CPU_ALLCPU_NICE", "PMID_CPU_ALLCPU_IDLE", "PMID_CPU_ALLCPU_WAITTOTAL", "PMID_CPU_ALLCPU_IRQTOTAL", "PMID_CPU_ALLCPU_IRQSOFT", "PMID_CPU_ALLCPU_IRQHARD", "PMID_CPU_ALLCPU_STEAL", "PMID_CPU_ALLCPU_GUEST", "PMID_CPU_ALLCPU_GUESTNICE", "PMID_CPU_PERCPU_USER", "PMID_CPU_PERCPU_NICE", "PMID_CPU_PERCPU_SYS", "PMID_CPU_PERCPU_IDLE", "PMID_CPU_PERCPU_WAITTOTAL", "PMID_CPU_PERCPU_IRQTOTAL", "PMID_CPU_PERCPU_IRQSOFT", "PMID_CPU_PERCPU_IRQHARD", "PMID_CPU_PERCPU_STEAL", "PMID_CPU_PERCPU_GUEST", "PMID_CPU_PERCPU_GUESTNICE", "PMID_CPU_PERCPU_INTERRUPTS"},
      a |-> "A_CPU", reader |-> "pcp_read_cpu_stats"],
     [pmids |-> {"PMID_POWER_PERCPU_CLOCK"},
      a |-> "A_PWR_CPU", reader |-> "pcp_read_pwr_cpufreq_stats"],
     [pmids |-> {"PMID_SOFTNET_ALLCPU_PROCESSED", "PMID_SOFTNET_ALLCPU_DROPPED", "PMID_SOFTNET_ALLCPU_TIMESQUEEZE", "PMID_SOFTNET_ALLCPU_RECEIVEDRPS", "PMID_SOFTNET_ALLCPU_FLOWLIMIT", "PMID_SOFTNET_ALLCPU_BACKLOGLENGTH", "PMID_SOFTNET_PERCPU_PROCESSED", "PMID_SOFTNET_PERCPU_DROPPED", "PMID_SOFTNET_PERCPU_TIMESQUEEZE", "PMID_SOFTNET_PERCPU_RECEIVEDRPS", "PMID_SOFTNET_PERCPU_FLOWLIMIT", "PMID_SOFTNET_PERCPU_BACKLOGLENGTH"},
      a |-> "A_NET_SOFT", reader |-> "pcp_read_softnet_stats"],
     [pmids |-> {"PMID_PCSW_CONTEXT_SWITCH", "PMID_PCSW_FORK_SYSCALLS"},
      a |-> "A_PCSW", reader |-> "pcp_read_pcsw_stats"],
     [pmids |-> {"PMID_IRQ_ALLIRQ_TOTAL", "PMID_IRQ_PERIRQ_TOTAL"},
      a |-> "A_IRQ", reader |-> "pcp_read_irq_stats"],
     [pmids |-> {"PMID_SWAP_PAGESIN", "PMID_SWAP_PAGESOUT"},
      a |-> "A_SWAP", reader |-> "pcp_read_swap_stats"],
     [pmids |-> {"PMID_PAGING_PGPGIN", "PMID_PAGING_PGPGOUT", "PMID_PAGING_PGFAULT", "PMID_PAGING_PGMAJFAULT", "PMID_PAGING_PGFREE", "PMID_PAGING_PGSCANDIRECT", "PMID_PAGING_PGSCANKSWAPD", "PMID_PAGING_PGSTEAL"},
      a |-> "A_PAGE", reader |-> "pcp_read_paging_stats"],
     [pmids |-> {"PMID_IO_ALLDEV_TOTAL", "PMID_IO_ALLDEV_READ", "PMID_IO_ALLDEV_WRITE", "PMID_IO_ALLDEV_DISCARD", "PMID_IO_ALLDEV_READBYTES", "PMID_IO_ALLDEV_WRITEBYTES", "PMID_IO_ALLDEV_DISCARDBYTES"},
      a |-> "A_IO", reader |-> "pcp_read_io_stats"],
     [pmids |-> {"PMID_MEM_PHYS_MB", "PMID_MEM_PHYS_KB", "PMID_MEM_UTIL_FREE", "PMID_MEM_UTIL_AVAIL", "PMID_MEM_UTIL_USED", "PMID_MEM_UTIL_BUFFER", "PMID_MEM_UTIL_CACHED", "PMID_MEM_UTIL_COMMITAS", "PMID_MEM_UTIL_ACTIVE", "PMID_MEM_UTIL_INACTIVE", "PMID_MEM_UTIL_DIRTY", "PMID_MEM_UTIL_ANON", "PMID_MEM_UTIL_SLAB", "PMID_MEM_UTIL_KSTACK", "PMID_MEM_UTIL_PGTABLE", "PMID_MEM_UTIL_VMALLOC", "PMID_MEM_UTIL_SWAPFREE", "PMID_MEM_UTIL_SWAPTOTAL", "PMID_MEM_UTIL_SWAPCACHED"},
      a |-> "A_MEMORY", reader |-> "pcp_read_memory_stats"],
     [pmids |-> {"PMID_KTABLE_DENTRYS", "PMID_KTABLE_FILES", "PMID_KTABLE_INODES", "PMID_KTABLE_PTYS"},
      a |-> "A_KTABLES", reader |-> "pcp_read_ktable_stats"],
     [pmids |-> {"PMID_KQUEUE_RUNNABLE", "PMID_KQUEUE_PROCESSES", "PMID_KQUEUE_BLOCKED", "PMID_KQUEUE_LOADAVG"},
      a |-> "A_QUEUE", reader |-> "pcp_read_kqueue_stats"],
     [pmids |-> {"PMID_DISK_PERDEV_READ", "PMID_DISK_PERDEV_WRITE", "PMID_DISK_PERDEV_TOTAL", "PMID_DISK_PERDEV_TOTALBYTES", "PMID_DISK_PERDEV_READBYTES", "PMID_DISK_PERDEV_WRITEBYTES", "PMID_DISK_PERDEV_DISCARDBYTES", "PMID_DISK_PERDEV_READACTIVE", "PMID_DISK_PERDEV_WRITEACTIVE", "PMID_DISK_PERDEV_TOTALACTIVE", "PMID_DISK_PERDEV_DISCARDACTIVE", "PMID_DISK_PERDEV_AVACTIVE", "PMID_DISK_PERDEV_AVQUEUE"},
      a |-> "A_DISK", reader |-> "pcp_read_disk_stats"],
     [pmids |-> {"PMID_NET_PERINTF_INPACKETS", "PMID_NET_PERINTF_OUTPACKETS", "PMID_NET_PERINTF_INBYTES", "PMID_NET_PERINTF_OUTBYTES", "PMID_NET_PERINTF_INCOMPRESS", "PMID_NET_PERINTF_OUTCOMPRESS", "PMID_NET_PERINTF_INMULTICAST"},
      a |-> "A_NET_DEV", reader |-> "pcp_read_netdev_stats"],
     [pmids |-> {"PMID_NET_EPERINTF_INERRORS", "PMID_NET_EPERINTF_OUTERRORS", "PMID_NET_EPERINTF_COLLISIONS", "PMID_NET_EPERINTF_INDROPS", "PMID_NET_EPERINTF_OUTDROPS", "PMID_NET_EPERINTF_OUTCARRIER", "PMID_NET_EPERINTF_INFRAME", "PMID_NET_EPERINTF_INFIFO", "PMID_NET_EPERINTF_OUTFIFO"},
      a |-> "A_NET_EDEV", reader |-> "pcp_read_enetdev_stats"],
     [pmids |-> {"PMID_SERIAL_PERTTY_RX", "PMID_SERIAL_PERTTY_TX", "PMID_SERIAL_PERTTY_FRAME", "PMID_SERIAL_PERTTY_PARITY", "PMID_SERIAL_PERTTY_BRK", "PMID_SERIAL_PERTTY_OVERRUN"},
      a |-> "A_SERIAL", reader |-> "pcp_read_serial_stats"],
     [pmids |-> {"PMID_SOCKET_TOTAL", "PMID_SOCKET_TCPINUSE", "PMID_SOCKET_UDPINUSE", "PMID_SOCKET_RAWINUSE", "PMID_SOCKET_FRAGINUSE", "PMID_SOCKET_TCPTW"},
      a |-> "A_NET_SOCK", reader |-> "pcp_read_net_sock_stats"],
     [pmids |-> {"PMID_NET_IP_INRECEIVES", "PMID_NET_IP_FORWDATAGRAMS", "PMID_NET_IP_INDELIVERS", "PMID_NET_IP_OUTREQUESTS", "PMID_NET_IP_REASMREQDS", "PMID_NET_IP_REASMOKS", "PMID_NET_IP_FRAGOKS", "PMID_NET_IP_FRAGCREATES"},
      a |-> "A_NET_IP", reader |-> "pcp_read_net_ip_stats"],
     [pmids |-> {"PMID_NET_EIP_INHDRERRORS", "PMID_NET_EIP_INADDRERRORS", "PMID_NET_EIP_INUNKNOWNPROTOS", "PMID_NET_EIP_INDISCARDS", "PMID_NET_EIP_OUTDISCARDS", "PMID_NET_EIP_OUTNOROUTES", "PMID_NET_EIP_REASMFAILS", "PMID_NET_EIP_FRAGFAILS"},
      a |-> "A_NET_EIP", reader |-> "pcp_read_net_eip_stats"],
     [pmids |-> {"PMID_NFSCLIENT_RPCCCNT", "PMID_NFSCLIENT_RPCRETRANS", "PMID_NFSCLIENT_REQUESTS"},
      a |-> "A_NET_NFS", reader |-> "pcp_read_net_nfs_stats"],
     [pmids |-> {"PMID_NFSSERVER_RPCCNT", "PMID_NFSSERVER_RPCBADCLNT", "PMID_NFSSERVER_NETCNT", "PMID_NFSSERVER_NETUDPCNT", "PMID_NFSSERVER_NETTCPCNT", "PMID_NFSSERVER_RCHITS", "PMID_NFSSERVER_RCMISSES", "PMID_NFSSERVER_REQUESTS"},
      a |-> "A_NET_NFSD", reader |-> "pcp_read_net_nfsd_stats"],
     [pmids |-> {"PMID_NET_ICMP_INMSGS", "PMID_NET_ICMP_OUTMSGS", "PMID_NET_ICMP_INECHOS", "PMID_NET_ICMP_INECHOREPS", "PMID_NET_ICMP_OUTECHOS", "PMID_NET_ICMP_OUTECHOREPS", "PMID_NET_ICMP_INTIMESTAMPS", "PMID_NET_ICMP_INTIMESTAMPREPS", "PMID_NET_ICMP_OUTTIMESTAMPS", "PMID_NET_ICMP_OUTTIMESTAMPREPS", "PMID_NET_ICMP_INADDRMASKS", "PMID_NET_ICMP_INADDRMASKREPS", "PMID_NET_ICMP_OUTADDRMASKS", "PMID_NET_ICMP_OUTADDRMASKREPS"},
      a |-> "A_NET_ICMP", reader |-> "pcp_read_net_icmp_stats"],
     [pmids |-> {"PMID_NET_EICMP_INERRORS", "PMID_NET_EICMP_OUTERRORS", "PMID_NET_EICMP_INDESTUNREACHS", "PMID_NET_EICMP_OUTDESTUNREACHS", "PMID_NET_EICMP_INTIMEEXCDS", "PMID_NET_EICMP_OUTTIMEEXCDS", "PMID_NET_EICMP_INPARMPROBS", "PMID_NET_EICMP_OUTPARMPROBS", "PMID_NET_EICMP_INSRCQUENCHS", "PMID_NET_EICMP_OUTSRCQUENCHS", "PMID_NET_EICMP_INREDIRECTS", "PMID_NET_EICMP_OUTREDIRECTS"},
      a |-> "A_NET_EICMP", reader |-> "pcp_read_net_eicmp_stats"],
     [pmids |-> {"PMID_NET_TCP_ACTIVEOPENS", "PMID_NET_TCP_PASSIVEOPENS", "PMID_NET_TCP_INSEGS", "PMID_NET_TCP_OUTSEGS"},
      a |-> "A_NET_TCP", reader |-> "pcp_read_net_tcp_stats"],
     [pmids |-> {"PMID_NET_ETCP_ATTEMPTFAILS", "PMID_NET_ETCP_ESTABRESETS", "PMID_NET_ETCP_RETRANSSEGS", "PMID_NET_ETCP_INERRS", "PMID_NET_ETCP_OUTRSTS"},
      a |-> "A_NET_ETCP", reader |-> "pcp_read_net_etcp_stats"],
     [pmids |-> {"PMID_NET_UDP_INDATAGRAMS", "PMID_NET_UDP_OUTDATAGRAMS", "PMID_NET_UDP_NOPORTS", "PMID_NET_UDP_INERRORS"},
      a |-> "A_NET_UDP", reader |-> "pcp_read_net_udp_stats"],
     [pmids |-> {"PMID_NET_SOCK6_TCPINUSE", "PMID_NET_SOCK6_UDPINUSE", "PMID_NET_SOCK6_RAWINUSE", "PMID_NET_SOCK6_FRAGINUSE"},
      a |-> "A_NET_SOCK6", reader |-> "pcp_read_net_sock6_stats"],
     [pmids |-> {"PMID_NET_IP6_INRECEIVES", "PMID_NET_IP6_OUTFORWDATAGRAMS", "PMID_NET_IP6_INDELIVERS", "PMID_NET_IP6_OUTREQUESTS", "PMID_NET_IP6_REASMREQDS", "PMID_NET_IP6_REASMOKS", "PMID_NET_IP6_INMCASTPKTS", "PMID_NET_IP6_OUTMCASTPKTS", "PMID_NET_IP6_FRAGOKS", "PMID_NET_IP6_FRAGCREATES"},
      a |-> "A_NET_IP6", reader |-> "pcp_read_net_ip6_stats"],
     [pmids |-> {"PMID_NET_EIP6_INHDRERRORS", "PMID_NET_EIP6_INADDRERRORS", "PMID_NET_EIP6_INUNKNOWNPROTOS", "PMID_NET_EIP6_INTOOBIGERRORS", "PMID_NET_EIP6_INDISCARDS", "PMID_NET_EIP6_OUTDISCARDS", "PMID_NET_EIP6_INNOROUTES", "PMID_NET_EIP6_OUTNOROUTES", "PMID_NET_EIP6_REASMFAILS", "PMID_NET_EIP6_FRAGFAILS", "PMID_NET_EIP6_INTRUNCATEDPKTS"},
      a |-> "A_NET_EIP6", reader |-> "pcp_read_net_eip6_stats"],
     [pmids |-> {"PMID_NET_ICMP6_INMSGS", "PMID_NET_ICMP6_OUTMSGS", "PMID_NET_ICMP6_INECHOS", "PMID_NET_ICMP6_INECHOREPLIES", "PMID_NET_ICMP6_OUTECHOREPLIES", "PMID_NET_ICMP6_INGROUPMEMBQUERIES", "PMID_NET_ICMP6_INGROUPMEMBRESPONSES", "PMID_NET_ICMP6_OUTGROUPMEMBRESPONSES", "PMID_NET_ICMP6_INGROUPMEMBREDUCTIONS", "PMID_NET_ICMP6_OUTGROUPMEMBREDUCTIONS", "PMID_NET_ICMP6_INROUTERSOLICITS", "PMID_NET_ICMP6_OUTROUTERSOLICITS", "PMID_NET_ICMP6_INROUTERADVERTISEMENTS", "PMID_NET_ICMP6_INNEIGHBORSOLICITS", "PMID_NET_ICMP6_OUTNEIGHBORSOLICITS", "PMID_NET_ICMP6_INNEIGHBORADVERTISEMENTS", "PMID_NET_ICMP6_OUTNEIGHBORADVERTISEMENTS"},
      a |-> "A_NET_ICMP6", reader |-> "pcp_read_net_icmp6_stats"],
     [pmids |-> {"PMID_NET_EICMP6_INERRORS", "PMID_NET_EICMP6_INDESTUNREACHS", "PMID_NET_EICMP6_OUTDESTUNREACHS", "PMID_NET_EICMP6_INTIMEEXCDS", "PMID_NET_EICMP6_OUTTIMEEXCDS", "PMID_NET_EICMP6_INPARMPROBLEMS", "PMID_NET_EICMP6_OUTPARMPROBLEMS", "PMID_NET_EICMP6_INREDIRECTS", "PMID_NET_EICMP6_OUTREDIRECTS", "PMID_NET_EICMP6_INPKTTOOBIGS", "PMID_NET_EICMP6_OUTPKTTOOBIGS"},
      a |-> "A_NET_EICMP6", reader |-> "pcp_read_net_eicmp6_stats"],
     [pmids |-> {"PMID_NET_UDP6_INDATAGRAMS", "PMID_NET_UDP6_OUTDATAGRAMS", "PMID_NET_UDP6_NOPORTS", "PMID_NET_UDP6_INERRORS"},
      a |-> "A_NET_UDP6", reader |-> "pcp_read_net_udp6_stats"],
     [pmids |-> {"PMID_MEM_HUGE_TOTALBYTES", "PMID_MEM_HUGE_FREEBYTES", "PMID_MEM_HUGE_RSVDBYTES", "PMID_MEM_HUGE_SURPBYTES"},
      a |-> "A_HUGE", reader |-> "pcp_read_huge_stats"],
     [pmids |-> {"PMID_POWER_FAN_RPM", "PMID_POWER_FAN_DRPM", "PMID_POWER_FAN_DEVICE"},
      a |-> "A_PWR_FAN", reader |-> "pcp_read_power_fan_stats"],
     [pmids |-> {"PMID_POWER_TEMP_CELSIUS", "PMID_POWER_TEMP_PERCENT", "PMID_POWER_TEMP_DEVICE"},
      a |-> "A_PWR_TEMP", reader |-> "pcp_read_power_temp_stats"],
     [pmids |-> {"PMID_POWER_IN_VOLTAGE", "PMID_POWER_IN_PERCENT", "PMID_POWER_IN_DEVICE"},
      a |-> "A_PWR_IN", reader |-> "pcp_read_power_in_stats"],
     [pmids |-> {"PMID_POWER_BAT_CAPACITY", "PMID_POWER_BAT_STATUS"},
      a |-> "A_PWR_BAT", reader |-> "pcp_read_power_bat_stats"],
     [pmids |-> {"PMID_POWER_USB_BUS", "PMID_POWER_USB_VENDORID", "PMID_POWER_USB_PRODUCTID", "PMID_POWER_USB_MAXPOWER", "PMID_POWER_USB_MANUFACTURER", "PMID_POWER_USB_PRODUCTNAME"},
      a |-> "A_PWR_USB", reader |-> "pcp_read_power_usb_stats"],
     [pmids |-> {"PMID_FILESYS_CAPACITY", "PMID_FILESYS_FREE", "PMID_FILESYS_USED", "PMID_FILESYS_FULL", "PMID_FILESYS_MAXFILES", "PMID_FILESYS_FREEFILES", "PMID_FILESYS_USEDFILES", "PMID_FILESYS_AVAIL"},
      a |-> "A_FS", reader |-> "pcp_read_filesystem_stats"],
     [pmids |-> {"PMID_FCHOST_INFRAMES", "PMID_FCHOST_OUTFRAMES", "PMID_FCHOST_INBYTES", "PMID_FCHOST_OUTBYTES"},
      a |-> "A_NET_FC", reader |-> "pcp_read_fchost_stats"],
     [pmids |-> {"PMID_PSI_CPU_SOMETOTAL", "PMID_PSI_CPU_SOMEAVG"},
      a |-> "A_PSI_CPU", reader |-> "pcp_read_psicpu_stats"],
     [pmids |-> {"PMID_PSI_IO_SOMETOTAL", "PMID_PSI_IO_SOMEAVG", "PMID_PSI_IO_FULLTOTAL", "PMID_PSI_IO_FULLAVG"},
      a |-> "A_PSI_IO", reader |-> "pcp_read_psiio_stats"],
     [pmids |-> {"PMID_PSI_MEM_SOMETOTAL", "PMID_PSI_MEM_SOMEAVG", "PMID_PSI_MEM_FULLTOTAL", "PMID_PSI_MEM_FULLAVG"},
      a |-> "A_PSI_MEM", reader |-> "pcp_read_psimem_stats"] >>

(* The body of every pcp_read_*_stats reader: whether it calls
   pcp_reallocate_buffers first, and for each case label of its switch the
   field it assigns, the accessor and the descriptor array it reads through
   (named by the group it belongs to), the
   conversion applied and the instance number selecting it (NO_INST when the
   value is taken from vlist[0]). *)
readers ==
  [ pcp_read_cpu_stats |->
      [realloc |-> TRUE, cases |-> <<  >>],
    pcp_read_softnet_stats |->
      [realloc |-> FALSE, cases |-> <<  >>],
    pcp_read_pcsw_stats |->
      [realloc |-> TRUE, cases |-> << [pmids |-> {"PMID_PCSW_CONTEXT_SWITCH"}, writes |-> << [field |-> "context_switch", read |-> "pcp_read_u64", descs |-> "A_PCSW", metric |-> ENUM.PCSW_CONTEXT_SWITCH, conv |-> "none", inst |-> NO_INST] >>],
        [pmids |-> {"PMID_PCSW_FORK_SYSCALLS"}, writes |-> << [field |-> "processes", read |-> "pcp_read_u64", descs |-> "A_PCSW", metric |-> ENUM.PCSW_FORK_SYSCALLS, conv |-> "none", inst |-> NO_INST] >>] >>],
    pcp_read_irq_stats |->
      [realloc |-> FALSE, cases |-> <<  >>],
    pcp_read_swap_stats |->
      [realloc |-> FALSE, cases |-> << [pmids |-> {"PMID_SWAP_PAGESIN"}, writes |-> << [field |-> "pswpin", read |-> "pcp_read_u32", descs |-> "A_SWAP", metric |-> ENUM.SWAP_PAGESIN, conv |-> "none", inst |-> NO_INST] >>],
        [pmids |-> {"PMID_SWAP_PAGESOUT"}, writes |-> << [field |-> "pswpout", read |-> "pcp_read_u32", descs |-> "A_SWAP", metric |-> ENUM.SWAP_PAGESOUT, conv |-> "none", inst |-> NO_INST] >>] >>],
    pcp_read_paging_stats |->
      [realloc |-> FALSE, cases |-> << [pmids |-> {"PMID_PAGING_PGPGIN"}, writes |-> << [field |-> "pgpgin", read |-> "pcp_read_u64", descs |-> "A_PAGE", metric |-> ENUM.PAGING_PGPGIN, conv |-> "none", inst |-> NO_INST] >>],
        [pmids |-> {"PMID_PAGING_PGPGOUT"}, writes |-> << [field |-> "pgpgout", read |-> "pcp_read_u64", descs |-> "A_PAGE", metric |-> ENUM.PAGING_PGPGOUT, conv |-> "none", inst |-> NO_INST] >>],
        [pmids |-> {"PMID_PAGING_PGFAULT"}, writes |-> << [field |-> "pgfault", read |-> "pcp_read_u64", descs |-> "A_PAGE", metric |-> ENUM.PAGING_PGFAULT, conv |-> "none", inst |-> NO_INST] >>],
        [pmids |-> {"PMID_PAGING_PGMAJFAULT"}, writes |-> << [field |-> "pgmajfault", read |-> "pcp_read_u64", descs |-> "A_PAGE", metric |-> ENUM.PAGING_PGMAJFAULT, conv |-> "none", inst |-> NO_INST] >>],
        [pmids |-> {"PMID_PAGING_PGFREE"}, writes |-> << [field |-> "pgfree", read |-> "pcp_read_u64", descs |-> "A_PAGE", metric |-> ENUM.PAGING_PGFREE, conv |-> "none", inst |-> NO_INST] >>],
        [pmids |-> {"PMID_PAGING_PGSCANDIRECT"}, writes |-> << [field |-> "pgscan_direct", read |-> "pcp_read_u64", descs |-> "A_PAGE", metric |-> ENUM.PAGING_PGSCANDIRECT, conv |-> "none", inst |-> NO_INST] >>],
        [pmids |-> {"PMID_PAGING_PGSCANKSWAPD"}, writes |-> << [field |-> "pgscan_kswapd", read |-> "pcp_read_u64", descs |-> "A_PAGE", metric |-> ENUM.PAGING_PGSCANKSWAPD, conv |-> "none", inst |-> NO_INST] >>],
        [pmids |-> {"PMID_PAGING_PGSTEAL"}, writes |-> << [field |-> "pgsteal", read |-> "pcp_read_u64", descs |-> "A_PAGE", metric |-> ENUM.PAGING_PGSTEAL, conv |-> "none", inst |-> NO_INST] >>],
        [pmids |-> {"PMID_PAGING_PGPROMOTE"}, writes |-> << [field |-> "pgpromote", read |-> "pcp_read_u64", descs |-> "A_PAGE", metric |-> ENUM.PAGING_PGPROMOTE, conv |-> "none", inst |-> NO_INST] >>],
        [pmids |-> {"PMID_PAGING_PGDEMOTE"}, writes |-> << [field |-> "pgdemote", read |-> "pcp_read_u64", descs |-> "A_PAGE", metric |-> ENUM.PAGING_PGDEMOTE, conv |-> "none", inst |-> NO_INST] >>] >>],
    pcp_read_io_stats |->
      [realloc |-> FALSE, cases |-> << [pmids |-> {"PMID_IO_ALLDEV_TOTAL"}, writes |-> << [field |-> "dk_drive", read |-> "pcp_read_u64", descs |-> "A_IO", metric |-> ENUM.IO_ALLDEV_TOTAL, conv |-> "none", inst |-> NO_INST] >>],
        [pmids |-> {"PMID_IO_ALLDEV_READ"}, writes |-> << [field |-> "dk_drive_rio", read |-> "pcp_read_u64", descs |-> "A_IO", metric |-> ENUM.IO_ALLDEV_READ, conv |-> "none", inst |-> NO_INST] >>],
        [pmids |-> {"PMID_IO_ALLDEV_WRITE"}, writes |-> << [field |-> "dk_drive_wio", read |-> "pcp_read_u64", descs |-> "A_IO", metric |-> ENUM.IO_ALLDEV_WRITE, conv |-> "none", inst |-> NO_INST] >>],
        [pmids |-> {"PMID_IO_ALLDEV_DISCARD"}, writes |-> << [field |-> "dk_drive_dio", read |-> "pcp_read_u64", descs |-> "A_IO", metric |-> ENUM.IO_ALLDEV_DISCARD, conv |-> "none", inst |-> NO_INST] >>],
        [pmids |-> {"PMID_IO_ALLDEV_READBYTES"}, writes |-> << [field |-> "dk_drive_rblk", read |-> "pcp_read_u64", descs |-> "A_IO", metric |-> ENUM.IO_ALLDEV_READBYTES, conv |-> "none", inst |-> NO_INST] >>],
        [pmids |-> {"PMID_IO_ALLDEV_WRITEBYTES"}, writes |-> << [field |-> "dk_drive_wblk", read |-> "pcp_read_u64", descs |-> "A_IO", metric |-> ENUM.IO_ALLDEV_WRITEBYTES, conv |-> "none", inst |-> NO_INST] >>],
        [pmids |-> {"PMID_IO_ALLDEV_DISCARDBYTES"}, writes |-> << [field |-> "dk_drive_dblk", read |-> "pcp_read_u64", descs |-> "A_IO", metric |-> ENUM.IO_ALLDEV_DISCARDBYTES, conv |-> "none", inst |-> NO_INST] >>] >>],
    pcp_read_memory_stats |->
      [realloc |-> FALSE, cases |-> << [pmids |-> {"PMID_MEM_PHYS_KB"}, writes |-> << [field |-> "tlmkb", read |-> "pcp_read_u64", descs |-> "A_MEMORY", metric |-> ENUM.MEM_PHYS_KB, conv |-> "none", inst |-> NO_INST] >>],
        [pmids |-> {"PMID_MEM_UTIL_FREE"}, writes |-> << [field |-> "frmkb", read |-> "pcp_read_u64", descs |-> "A_MEMORY", metric |-> ENUM.MEM_UTIL_FREE, conv |-> "none", inst |-> NO_INST] >>],
        [pmids |-> {"PMID_MEM_UTIL_AVAIL"}, writes |-> << [field |-> "availablekb", read |-> "pcp_read_u64", descs |-> "A_MEMORY", metric |-> ENUM.MEM_UTIL_AVAIL, conv |-> "none", inst |-> NO_INST] >>],
        [pmids |-> {"PMID_MEM_UTIL_BUFFER"}, writes |-> << [field |-> "bufkb", read |-> "pcp_read_u64", descs |-> "A_MEMORY", metric |-> ENUM.MEM_UTIL_BUFFER, conv |-> "none", inst |-> NO_INST] >>],
        [pmids |-> {"PMID_MEM_UTIL_CACHED"}, writes |-> << [field |-> "camkb", read |-> "pcp_read_u64", descs |-> "A_MEMORY", metric |-> ENUM.MEM_UTIL_CACHED, conv |-> "none", inst |-> NO_INST] >>],
        [pmids |-> {"PMID_MEM_UTIL_COMMITAS"}, writes |-> << [field |-> "comkb", read |-> "pcp_read_u64", descs |-> "A_MEMORY", metric |-> ENUM.MEM_UTIL_COMMITAS, conv |-> "none", inst |-> NO_INST] >>],
        [pmids |-> {"PMID_MEM_UTIL_ACTIVE"}, writes |-> << [field |-> "activekb", read |-> "pcp_read_u64", descs |-> "A_MEMORY", metric |-> ENUM.MEM_UTIL_ACTIVE, conv |-> "none", inst |-> NO_INST] >>],
        [pmids |-> {"PMID_MEM_UTIL_INACTIVE"}, writes |-> << [field |-> "inactkb", read |-> "pcp_read_u64", descs |-> "A_MEMORY", metric |-> ENUM.MEM_UTIL_INACTIVE, conv |-> "none", inst |-> NO_INST] >>],
        [pmids |-> {"PMID_MEM_UTIL_DIRTY"}, writes |-> << [field |-> "dirtykb", read |-> "pcp_read_u64", descs |-> "A_MEMORY", metric |-> ENUM.MEM_UTIL_DIRTY, conv |-> "none", inst |-> NO_INST] >>],
        [pmids |-> {"PMID_MEM_UTIL_ANON"}, writes |-> << [field |-> "anonpgkb", read |-> "pcp_read_u64", descs |-> "A_MEMORY", metric |-> ENUM.MEM_UTIL_ANON, conv |-> "none", inst |-> NO_INST] >>],
        [pmids |-> {"PMID_MEM_UTIL_SLAB"}, writes |-> << [field |-> "slabkb", read |-> "pcp_read_u64", descs |-> "A_MEMORY", metric |-> ENUM.MEM_UTIL_SLAB, conv |-> "none", inst |-> NO_INST] >>],
        [pmids |-> {"PMID_MEM_UTIL_KSTACK"}, writes |-> << [field |-> "kstackkb", read |-> "pcp_read_u64", descs |-> "A_MEMORY", metric |-> ENUM.MEM_UTIL_KSTACK, conv |-> "none", inst |-> NO_INST] >>],
        [pmids |-> {"PMID_MEM_UTIL_PGTABLE"}, writes |-> << [field |-> "pgtblkb", read |-> "pcp_read_u64", descs |-> "A_MEMORY", metric |-> ENUM.MEM_UTIL_PGTABLE, conv |-> "none", inst |-> NO_INST] >>],
        [pmids |-> {"PMID_MEM_UTIL_VMALLOC"}, writes |-> << [field |-> "vmusedkb", read |-> "pcp_read_u64", descs |-> "A_MEMORY", metric |-> ENUM.MEM_UTIL_VMALLOC, conv |-> "none", inst |-> NO_INST] >>],
        [pmids |-> {"PMID_MEM_UTIL_SWAPFREE"}, writes |-> << [field |-> "frskb", read |-> "pcp_read_u64", descs |-> "A_MEMORY", metric |-> ENUM.MEM_UTIL_SWAPFREE, conv |-> "none", inst |-> NO_INST] >>],
        [pmids |-> {"PMID_MEM_UTIL_SWAPTOTAL"}, writes |-> << [field |-> "tlskb", read |-> "pcp_read_u64", descs |-> "A_MEMORY", metric |-> ENUM.MEM_UTIL_SWAPTOTAL, conv |-> "none", inst |-> NO_INST] >>],
        [pmids |-> {"PMID_MEM_UTIL_SWAPCACHED"}, writes |-> << [field |-> "caskb", read |-> "pcp_read_u64", descs |-> "A_MEMORY", metric |-> ENUM.MEM_UTIL_SWAPCACHED, conv |-> "none", inst |-> NO_INST] >>] >>],
    pcp_read_ktable_stats |->
      [realloc |-> FALSE, cases |-> << [pmids |-> {"PMID_KTABLE_DENTRYS"}, writes |-> << [field |-> "dentry_stat", read |-> "pcp_read_u32", descs |-> "A_KTABLES", metric |-> ENUM.KTABLE_DENTRYS, conv |-> "none", inst |-> NO_INST] >>],
        [pmids |-> {"PMID_KTABLE_FILES"}, writes |-> << [field |-> "file_used", read |-> "pcp_read_u32", descs |-> "A_KTABLES", metric |-> ENUM.KTABLE_FILES, conv |-> "none", inst |-> NO_INST] >>],
        [pmids |-> {"PMID_KTABLE_INODES"}, writes |-> << [field |-> "inode_used", read |-> "pcp_read_u32", descs |-> "A_KTABLES", metric |-> ENUM.KTABLE_INODES, conv |-> "none", inst |-> NO_INST] >>],
        [pmids |-> {"PMID_KTABLE_PTYS"}, writes |-> << [field |-> "pty_nr", read |-> "pcp_read_u32", descs |-> "A_KTABLES", metric |-> ENUM.KTABLE_PTYS, conv |-> "none", inst |-> NO_INST] >>] >>],
    pcp_read_kqueue_stats |->
      [realloc |-> FALSE, cases |-> << [pmids |-> {"PMID_KQUEUE_RUNNABLE"}, writes |-> << [field |-> "nr_running", read |-> "pcp_read_u32", descs |-> "A_QUEUE", metric |-> ENUM.KQUEUE_RUNNABLE, conv |-> "none", inst |-> NO_INST] >>],
        [pmids |-> {"PMID_KQUEUE_PROCESSES"}, writes |-> << [field |-> "nr_threads", read |-> "pcp_read_u32", descs |-> "A_QUEUE", metric |-> ENUM.KQUEUE_PROCESSES, conv |-> "none", inst |-> NO_INST] >>],
        [pmids |-> {"PMID_KQUEUE_BLOCKED"}, writes |-> << [field |-> "procs_blocked", read |-> "pcp_read_u32", descs |-> "A_QUEUE", metric |-> ENUM.KQUEUE_BLOCKED, conv |-> "none", inst |-> NO_INST] >>],
        [pmids |-> {"PMID_KQUEUE_LOADAVG"}, writes |-> << [field |-> "load_avg_1", read |-> "pcp_read_float", descs |-> "A_QUEUE", metric |-> ENUM.KQUEUE_LOADAVG, conv |-> "scale_then_trunc", inst |-> 1],
            [field |-> "load_avg_5", read |-> "pcp_read_float", descs |-> "A_QUEUE", metric |-> ENUM.KQUEUE_LOADAVG, conv |-> "scale_then_trunc", inst |-> 5],
            [field |-> "load_avg_15", read |-> "pcp_read_float", descs |-> "A_QUEUE", metric |-> ENUM.KQUEUE_LOADAVG, conv |-> "scale_then_trunc", inst |-> 15] >>] >>],
    pcp_read_disk_stats |->
      [realloc |-> FALSE, cases |-> <<  >>],
    pcp_read_netdev_stats |->
      [realloc |-> TRUE, cases |-> <<  >>],
    pcp_read_enetdev_stats |->
      [realloc |-> FALSE, cases |-> <<  >>],
    pcp_read_serial_stats |->
      [realloc |-> FALSE, cases |-> <<  >>],
    pcp_read_net_nfs_stats |->
      [realloc |-> FALSE, cases |-> << [pmids |-> {"PMID_NFSCLIENT_RPCCCNT"}, writes |-> << [field |-> "nfs_rpccnt", read |-> "pcp_read_u32", descs |-> "A_NET_NFS", metric |-> ENUM.NFSCLIENT_RPCCCNT, conv |-> "none", inst |-> NO_INST] >>],
        [pmids |-> {"PMID_NFSCLIENT_RPCRETRANS"}, writes |-> << [field |-> "nfs_rpcretrans", read |-> "pcp_read_u32", descs |-> "A_NET_NFS", metric |-> ENUM.NFSCLIENT_RPCRETRANS, conv |-> "none", inst |-> NO_INST] >>],
        [pmids |-> {"PMID_NFSCLIENT_REQUESTS"}, writes |-> << [field |-> "nfs_readcnt", read |-> "pcp_read_u32", descs |-> "A_NET_NFS", metric |-> ENUM.NFSCLIENT_RPCRETRANS, conv |-> "none", inst |-> ENUM.NFS_REQUEST_READ],
            [field |-> "nfs_writecnt", read |-> "pcp_read_u32", descs |-> "A_NET_NFS", metric |-> ENUM.NFSCLIENT_RPCRETRANS, conv |-> "none", inst |-> ENUM.NFS_REQUEST_WRITE],
            [field |-> "nfs_accesscnt", read |-> "pcp_read_u32", descs |-> "A_NET_NFS", metric |-> ENUM.NFSCLIENT_RPCRETRANS, conv |-> "none", inst |-> ENUM.NFS_REQUEST_ACCESS],
            [field |-> "nfs_getattcnt", read |-> "pcp_read_u32", descs |-> "A_NET_NFS", metric |-> ENUM.NFSCLIENT_RPCRETRANS, conv |-> "none", inst |-> ENUM.NFS_REQUEST_GETATTR] >>] >>],
    pcp_read_net_nfsd_stats |->
      [realloc |-> FALSE, cases |-> << [pmids |-> {"PMID_NFSSERVER_RPCCNT"}, writes |-> << [field |-> "nfsd_rpccnt", read |-> "pcp_read_u32", descs |-> "A_NET_NFSD", metric |-> ENUM.NFSSERVER_RPCCNT, conv |-> "none", inst |-> NO_INST] >>],
        [pmids |-> {"PMID_NFSSERVER_RPCBADCLNT"}, writes |-> << [field |-> "nfsd_rpcbad", read |-> "pcp_read_u32", descs |-> "A_NET_NFSD", metric |-> ENUM.NFSSERVER_RPCBADCLNT, conv |-> "none", inst |-> NO_INST] >>],
        [pmids |-> {"PMID_NFSSERVER_NETCNT"}, writes |-> << [field |-> "nfsd_netcnt", read |-> "pcp_read_u32", descs |-> "A_NET_NFSD", metric |-> ENUM.NFSSERVER_NETCNT, conv |-> "none", inst |-> NO_INST] >>],
        [pmids |-> {"PMID_NFSSERVER_NETUDPCNT"}, writes |-> << [field |-> "nfsd_netudpcnt", read |-> "pcp_read_u32", descs |-> "A_NET_NFSD", metric |-> ENUM.NFSSERVER_NETUDPCNT, conv |-> "none", inst |-> NO_INST] >>],
        [pmids |-> {"PMID_NFSSERVER_NETTCPCNT"}, writes |-> << [field |-> "nfsd_nettcpcnt", read |-> "pcp_read_u32", descs |-> "A_NET_NFSD", metric |-> ENUM.NFSSERVER_NETTCPCNT, conv |-> "none", inst |-> NO_INST] >>],
        [pmids |-> {"PMID_NFSSERVER_RCHITS"}, writes |-> << [field |-> "nfsd_rchits", read |-> "pcp_read_u32", descs |-> "A_NET_NFSD", metric |-> ENUM.NFSSERVER_RCHITS, conv |-> "none", inst |-> NO_INST] >>],
        [pmids |-> {"PMID_NFSSERVER_RCMISSES"}, writes |-> << [field |-> "nfsd_rcmisses", read |-> "pcp_read_u32", descs |-> "A_NET_NFSD", metric |-> ENUM.NFSSERVER_RCMISSES, conv |-> "none", inst |-> NO_INST] >>],
        [pmids |-> {"PMID_NFSSERVER_REQUESTS"}, writes |-> << [field |-> "nfsd_readcnt", read |-> "pcp_read_u32", descs |-> "A_NET_NFSD", metric |-> ENUM.NFSSERVER_REQUESTS, conv |-> "none", inst |-> ENUM.NFS_REQUEST_READ],
            [field |-> "nfsd_writecnt", read |-> "pcp_read_u32", descs |-> "A_NET_NFSD", metric |-> ENUM.NFSSERVER_REQUESTS, conv |-> "none", inst |-> ENUM.NFS_REQUEST_WRITE],
            [field |-> "nfsd_accesscnt", read |-> "pcp_read_u32", descs |-> "A_NET_NFSD", metric |-> ENUM.NFSSERVER_REQUESTS, conv |-> "none", inst |-> ENUM.NFS_REQUEST_ACCESS],
            [field |-> "nfsd_getattcnt", read |-> "pcp_read_u32", descs |-> "A_NET_NFSD", metric |-> ENUM.NFSSERVER_REQUESTS, conv |-> "none", inst |-> ENUM.NFS_REQUEST_GETATTR] >>] >>],
    pcp_read_net_sock_stats |->
      [realloc |-> FALSE, cases |-> << [pmids |-> {"PMID_SOCKET_TOTAL"}, writes |-> << [field |-> "sock_inuse", read |-> "pcp_read_u64", descs |-> "A_NET_SOCK", metric |-> ENUM.SOCKET_TOTAL, conv |-> "none", inst |-> NO_INST] >>],
        [pmids |-> {"PMID_SOCKET_TCPINUSE"}, writes |-> << [field |-> "tcp_inuse", read |-> "pcp_read_u64", descs |-> "A_NET_SOCK", metric |-> ENUM.SOCKET_TCPINUSE, conv |-> "none", inst |-> NO_INST] >>],
        [pmids |-> {"PMID_SOCKET_UDPINUSE"}, writes |-> << [field |-> "udp_inuse", read |-> "pcp_read_u64", descs |-> "A_NET_SOCK", metric |-> ENUM.SOCKET_UDPINUSE, conv |-> "none", inst |-> NO_INST] >>],
        [pmids |-> {"PMID_SOCKET_RAWINUSE"}, writes |-> << [field |-> "raw_inuse", read |-> "pcp_read_u64", descs |-> "A_NET_SOCK", metric |-> ENUM.SOCKET_RAWINUSE, conv |-> "none", inst |-> NO_INST] >>],
        [pmids |-> {"PMID_SOCKET_FRAGINUSE"}, writes |-> << [field |-> "frag_inuse", read |-> "pcp_read_u64", descs |-> "A_NET_SOCK", metric |-> ENUM.SOCKET_FRAGINUSE, conv |-> "none", inst |-> NO_INST] >>],
        [pmids |-> {"PMID_SOCKET_TCPTW"}, writes |-> << [field |-> "tcp_tw", read |-> "pcp_read_u64", descs |-> "A_NET_SOCK", metric |-> ENUM.SOCKET_TCPTW, conv |-> "none", inst |-> NO_INST] >>] >>],
    pcp_read_net_ip_stats |->
      [realloc |-> FALSE, cases |-> << [pmids |-> {"PMID_NET_IP_INRECEIVES"}, writes |-> << [field |-> "InReceives", read |-> "pcp_read_u64", descs |-> "A_NET_IP", metric |-> ENUM.NET_IP_INRECEIVES, conv |-> "none", inst |-> NO_INST] >>],
        [pmids |-> {"PMID_NET_IP_FORWDATAGRAMS"}, writes |-> << [field |-> "ForwDatagrams", read |-> "pcp_read_u64", descs |-> "A_NET_IP", metric |-> ENUM.NET_IP_FORWDATAGRAMS, conv |-> "none", inst |-> NO_INST] >>],
        [pmids |-> {"PMID_NET_IP_INDELIVERS"}, writes |-> << [field |-> "InDelivers", read |-> "pcp_read_u64", descs |-> "A_NET_IP", metric |-> ENUM.NET_IP_INDELIVERS, conv |-> "none", inst |-> NO_INST] >>],
        [pmids |-> {"PMID_NET_IP_OUTREQUESTS"}, writes |-> << [field |-> "OutRequests", read |-> "pcp_read_u64", descs |-> "A_NET_IP", metric |-> ENUM.NET_IP_OUTREQUESTS, conv |-> "none", inst |-> NO_INST] >>],
        [pmids |-> {"PMID_NET_IP_REASMREQDS"}, writes |-> << [field |-> "ReasmReqds", read |-> "pcp_read_u64", descs |-> "A_NET_IP", metric |-> ENUM.NET_IP_REASMREQDS, conv |-> "none", inst |-> NO_INST] >>],
        [pmids |-> {"PMID_NET_IP_REASMOKS"}, writes |-> << [field |-> "ReasmOKs", read |-> "pcp_read_u64", descs |-> "A_NET_IP", metric |-> ENUM.NET_IP_REASMOKS, conv |-> "none", inst |-> NO_INST] >>],
        [pmids |-> {"PMID_NET_IP_FRAGOKS"}, writes |-> << [field |-> "FragOKs", read |-> "pcp_read_u64", descs |-> "A_NET_IP", metric |-> ENUM.NET_IP_FRAGOKS, conv |-> "none", inst |-> NO_INST] >>],
        [pmids |-> {"PMID_NET_IP_FRAGCREATES"}, writes |-> << [field |-> "FragCreates", read |-> "pcp_read_u64", descs |-> "A_NET_IP", metric |-> ENUM.NET_IP_FRAGCREATES, conv |-> "none", inst |-> NO_INST] >>] >>],
    pcp_read_net_eip_stats |->
      [realloc |-> FALSE, cases |-> << [pmids |-> {"PMID_NET_EIP_INHDRERRORS"}, writes |-> << [field |-> "InHdrErrors", read |-> "pcp_read_u64", descs |-> "A_NET_EIP", metric |-> ENUM.NET_EIP_INHDRERRORS, conv |-> "none", inst |-> NO_INST] >>],
        [pmids |-> {"PMID_NET_EIP_INADDRERRORS"}, writes |-> << [field |-> "InAddrErrors", read |-> "pcp_read_u64", descs |-> "A_NET_EIP", metric |-> ENUM.NET_EIP_INADDRERRORS, conv |-> "none", inst |-> NO_INST] >>],
        [pmids |-> {"PMID_NET_EIP_INUNKNOWNPROTOS"}, writes |-> << [field |-> "InUnknownProtos", read |-> "pcp_read_u64", descs |-> "A_NET_EIP", metric |-> ENUM.NET_EIP_INUNKNOWNPROTOS, conv |-> "none", inst |-> NO_INST] >>],
        [pmids |-> {"PMID_NET_EIP_INDISCARDS"}, writes |-> << [field |-> "InDiscards", read |-> "pcp_read_u64", descs |-> "A_NET_EIP", metric |-> ENUM.NET_EIP_INDISCARDS, conv |-> "none", inst |-> NO_INST] >>],
        [pmids |-> {"PMID_NET_EIP_OUTDISCARDS"}, writes |-> << [field |-> "OutDiscards", read |-> "pcp_read_u64", descs |-> "A_NET_EIP", metric |-> ENUM.NET_EIP_OUTDISCARDS, conv |-> "none", inst |-> NO_INST] >>],
        [pmids |-> {"PMID_NET_EIP_OUTNOROUTES"}, writes |-> << [field |-> "OutNoRoutes", read |-> "pcp_read_u64", descs |-> "A_NET_EIP", metric |-> ENUM.NET_EIP_OUTNOROUTES, conv |-> "none", inst |-> NO_INST] >>],
        [pmids |-> {"PMID_NET_EIP_REASMFAILS"}, writes |-> << [field |-> "ReasmFails", read |-> "pcp_read_u64", descs |-> "A_NET_EIP", metric |-> ENUM.NET_EIP_REASMFAILS, conv |-> "none", inst |-> NO_INST] >>],
        [pmids |-> {"PMID_NET_EIP_FRAGFAILS"}, writes |-> << [field |-> "FragFails", read |-> "pcp_read_u64", descs |-> "A_NET_EIP", metric |-> ENUM.NET_EIP_FRAGFAILS, conv |-> "none", inst |-> NO_INST] >>] >>],
    pcp_read_net_icmp_stats |->
      [realloc |-> FALSE, cases |-> << [pmids |-> {"PMID_NET_ICMP_INMSGS"}, writes |-> << [field |-> "InMsgs", read |-> "pcp_read_u64", descs |-> "A_NET_ICMP", metric |-> ENUM.NET_ICMP_INMSGS, conv |-> "none", inst |-> NO_INST] >>],
        [pmids |-> {"PMID_NET_ICMP_OUTMSGS"}, writes |-> << [field |-> "OutMsgs", read |-> "pcp_read_u64", descs |-> "A_NET_ICMP", metric |-> ENUM.NET_ICMP_OUTMSGS, conv |-> "none", inst |-> NO_INST] >>],
        [pmids |-> {"PMID_NET_ICMP_INECHOS"}, writes |-> << [field |-> "InEchos", read |-> "pcp_read_u64", descs |-> "A_NET_ICMP", metric |-> ENUM.NET_ICMP_INECHOS, conv |-> "none", inst |-> NO_INST] >>],
        [pmids |-> {"PMID_NET_ICMP_INECHOREPS"}, writes |-> << [field |-> "InEchoReps", read |-> "pcp_read_u64", descs |-> "A_NET_ICMP", metric |-> ENUM.NET_ICMP_INECHOREPS, conv |-> "none", inst |-> NO_INST] >>],
        [pmids |-> {"PMID_NET_ICMP_OUTECHOS"}, writes |-> << [field |-> "OutEchos", read |-> "pcp_read_u64", descs |-> "A_NET_ICMP", metric |-> ENUM.NET_ICMP_OUTECHOS, conv |-> "none", inst |-> NO_INST] >>],
        [pmids |-> {"PMID_NET_ICMP_OUTECHOREPS"}, writes |-> << [field |-> "OutEchoReps", read |-> "pcp_read_u64", descs |-> "A_NET_ICMP", metric |-> ENUM.NET_ICMP_OUTECHOREPS, conv |-> "none", inst |-> NO_INST] >>],
        [pmids |-> {"PMID_NET_ICMP_INTIMESTAMPS"}, writes |-> << [field |-> "InTimestamps", read |-> "pcp_read_u64", descs |-> "A_NET_ICMP", metric |-> ENUM.NET_ICMP_INTIMESTAMPS, conv |-> "none", inst |-> NO_INST] >>],
        [pmids |-> {"PMID_NET_ICMP_INTIMESTAMPREPS"}, writes |-> << [field |-> "InTimestampReps", read |-> "pcp_read_u64", descs |-> "A_NET_ICMP", metric |-> ENUM.NET_ICMP_INTIMESTAMPREPS, conv |-> "none", inst |-> NO_INST] >>],
        [pmids |-> {"PMID_NET_ICMP_OUTTIMESTAMPS"}, writes |-> << [field |-> "OutTimestamps", read |-> "pcp_read_u64", descs |-> "A_NET_ICMP", metric |-> ENUM.NET_ICMP_OUTTIMESTAMPS, conv |-> "none", inst |-> NO_INST] >>],
        [pmids |-> {"PMID_NET_ICMP_OUTTIMESTAMPREPS"}, writes |-> << [field |-> "OutTimestampReps", read |-> "pcp_read_u64", descs |-> "A_NET_ICMP", metric |-> ENUM.NET_ICMP_OUTTIMESTAMPREPS, conv |-> "none", inst |-> NO_INST] >>],
        [pmids |-> {"PMID_NET_ICMP_INADDRMASKS"}, writes |-> << [field |-> "InAddrMasks", read |-> "pcp_read_u64", descs |-> "A_NET_ICMP", metric |-> ENUM.NET_ICMP_INADDRMASKS, conv |-> "none", inst |-> NO_INST] >>],
        [pmids |-> {"PMID_NET_ICMP_INADDRMASKREPS"}, writes |-> << [field |-> "InAddrMaskReps", read |-> "pcp_read_u64", descs |-> "A_NET_ICMP", metric |-> ENUM.NET_ICMP_INADDRMASKREPS, conv |-> "none", inst |-> NO_INST] >>],
        [pmids |-> {"PMID_NET_ICMP_OUTADDRMASKS"}, writes |-> << [field |-> "OutAddrMasks", read |-> "pcp_read_u64", descs |-> "A_NET_ICMP", metric |-> ENUM.NET_ICMP_OUTADDRMASKS, conv |-> "none", inst |-> NO_INST] >>],
        [pmids |-> {"PMID_NET_ICMP_OUTADDRMASKREPS"}, writes |-> << [field |-> "OutAddrMaskReps", read |-> "pcp_read_u64", descs |-> "A_NET_ICMP", metric |-> ENUM.NET_ICMP_OUTADDRMASKREPS, conv |-> "none", inst |-> NO_INST] >>] >>],
    pcp_read_net_eicmp_stats |->
      [realloc |-> FALSE, cases |-> << [pmids |-> {"PMID_NET_EICMP_INERRORS"}, writes |-> << [field |-> "InErrors", read |-> "pcp_read_u64", descs |-> "A_NET_EICMP", metric |-> ENUM.NET_EICMP_INERRORS, conv |-> "none", inst |-> NO_INST] >>],
        [pmids |-> {"PMID_NET_EICMP_OUTERRORS"}, writes |-> << [field |-> "OutErrors", read |-> "pcp_read_u64", descs |-> "A_NET_EICMP", metric |-> ENUM.NET_EICMP_OUTERRORS, conv |-> "none", inst |-> NO_INST] >>],
        [pmids |-> {"PMID_NET_EICMP_INDESTUNREACHS"}, writes |-> << [field |-> "InDestUnreachs", read |-> "pcp_read_u64", descs |-> "A_NET_EICMP", metric |-> ENUM.NET_EICMP_INDESTUNREACHS, conv |-> "none", inst |-> NO_INST] >>],
        [pmids |-> {"PMID_NET_EICMP_OUTDESTUNREACHS"}, writes |-> << [field |-> "OutDestUnreachs", read |-> "pcp_read_u64", descs |-> "A_NET_EICMP", metric |-> ENUM.NET_EICMP_OUTDESTUNREACHS, conv |-> "none", inst |-> NO_INST] >>],
        [pmids |-> {"PMID_NET_EICMP_INTIMEEXCDS"}, writes |-> << [field |-> "InTimeExcds", read |-> "pcp_read_u64", descs |-> "A_NET_EICMP", metric |-> ENUM.NET_EICMP_INTIMEEXCDS, conv |-> "none", inst |-> NO_INST] >>],
        [pmids |-> {"PMID_NET_EICMP_OUTTIMEEXCDS"}, writes |-> << [field |-> "OutTimeExcds", read |-> "pcp_read_u64", descs |-> "A_NET_EICMP", metric |-> ENUM.NET_EICMP_OUTTIMEEXCDS, conv |-> "none", inst |-> NO_INST] >>],
        [pmids |-> {"PMID_NET_EICMP_INPARMPROBS"}, writes |-> << [field |-> "InParmProbs", read |-> "pcp_read_u64", descs |-> "A_NET_EICMP", metric |-> ENUM.NET_EICMP_INPARMPROBS, conv |-> "none", inst |-> NO_INST] >>],
        [pmids |-> {"PMID_NET_EICMP_OUTPARMPROBS"}, writes |-> << [field |-> "OutParmProbs", read |-> "pcp_read_u64", descs |-> "A_NET_EICMP", metric |-> ENUM.NET_EICMP_OUTPARMPROBS, conv |-> "none", inst |-> NO_INST] >>],
        [pmids |-> {"PMID_NET_EICMP_INSRCQUENCHS"}, writes |-> << [field |-> "InSrcQuenchs", read |-> "pcp_read_u64", descs |-> "A_NET_EICMP", metric |-> ENUM.NET_EICMP_INSRCQUENCHS, conv |-> "none", inst |-> NO_INST] >>],
        [pmids |-> {"PMID_NET_EICMP_OUTSRCQUENCHS"}, writes |-> << [field |-> "OutSrcQuenchs", read |-> "pcp_read_u64", descs |-> "A_NET_EICMP", metric |-> ENUM.NET_EICMP_OUTSRCQUENCHS, conv |-> "none", inst |-> NO_INST] >>],
        [pmids |-> {"PMID_NET_EICMP_INREDIRECTS"}, writes |-> << [field |-> "InRedirects", read |-> "pcp_read_u64", descs |-> "A_NET_EICMP", metric |-> ENUM.NET_EICMP_INREDIRECTS, conv |-> "none", inst |-> NO_INST] >>],
        [pmids |-> {"PMID_NET_EICMP_OUTREDIRECTS"}, writes |-> << [field |-> "OutRedirects", read |-> "pcp_read_u64", descs |-> "A_NET_EICMP", metric |-> ENUM.NET_EICMP_OUTREDIRECTS, conv |-> "none", inst |-> NO_INST] >>] >>],
    pcp_read_net_tcp_stats |->
      [realloc |-> FALSE, cases |-> << [pmids |-> {"PMID_NET_TCP_ACTIVEOPENS"}, writes |-> << [field |-> "ActiveOpens", read |-> "pcp_read_u64", descs |-> "A_NET_ETCP", metric |-> ENUM.NET_TCP_ACTIVEOPENS, conv |-> "none", inst |-> NO_INST] >>],
        [pmids |-> {"PMID_NET_TCP_PASSIVEOPENS"}, writes |-> << [field |-> "PassiveOpens", read |-> "pcp_read_u64", descs |-> "A_NET_ETCP", metric |-> ENUM.NET_TCP_PASSIVEOPENS, conv |-> "none", inst |-> NO_INST] >>],
        [pmids |-> {"PMID_NET_TCP_INSEGS"}, writes |-> << [field |-> "InSegs", read |-> "pcp_read_u64", descs |-> "A_NET_ETCP", metric |-> ENUM.NET_TCP_INSEGS, conv |-> "none", inst |-> NO_INST] >>],
        [pmids |-> {"PMID_NET_TCP_OUTSEGS"}, writes |-> << [field |-> "OutSegs", read |-> "pcp_read_u64", descs |-> "A_NET_ETCP", metric |-> ENUM.NET_TCP_OUTSEGS, conv |-> "none", inst |-> NO_INST] >>] >>],
    pcp_read_net_etcp_stats |->
      [realloc |-> FALSE, cases |-> << [pmids |-> {"PMID_NET_ETCP_ATTEMPTFAILS"}, writes |-> << [field |-> "AttemptFails", read |-> "pcp_read_u64", descs |-> "A_NET_ETCP", metric |-> ENUM.NET_ETCP_ATTEMPTFAILS, conv |-> "none", inst |-> NO_INST] >>],
        [pmids |-> {"PMID_NET_ETCP_ESTABRESETS"}, writes |-> << [field |-> "EstabResets", read |-> "pcp_read_u64", descs |-> "A_NET_ETCP", metric |-> ENUM.NET_ETCP_ESTABRESETS, conv |-> "none", inst |-> NO_INST] >>],
        [pmids |-> {"PMID_NET_ETCP_RETRANSSEGS"}, writes |-> << [field |-> "RetransSegs", read |-> "pcp_read_u64", descs |-> "A_NET_ETCP", metric |-> ENUM.NET_ETCP_RETRANSSEGS, conv |-> "none", inst |-> NO_INST] >>],
        [pmids |-> {"PMID_NET_ETCP_INERRS"}, writes |-> << [field |-> "InErrs", read |-> "pcp_read_u64", descs |-> "A_NET_ETCP", metric |-> ENUM.NET_ETCP_INERRS, conv |-> "none", inst |-> NO_INST] >>],
        [pmids |-> {"PMID_NET_ETCP_OUTRSTS"}, writes |-> << [field |-> "OutRsts", read |-> "pcp_read_u64", descs |-> "A_NET_ETCP", metric |-> ENUM.NET_ETCP_OUTRSTS, conv |-> "none", inst |-> NO_INST] >>] >>],
    pcp_read_net_udp_stats |->
      [realloc |-> FALSE, cases |-> << [pmids |-> {"PMID_NET_UDP_INDATAGRAMS"}, writes |-> << [field |-> "InDatagrams", read |-> "pcp_read_u64", descs |-> "A_NET_UDP", metric |-> ENUM.NET_UDP_INDATAGRAMS, conv |-> "none", inst |-> NO_INST] >>],
        [pmids |-> {"PMID_NET_UDP_OUTDATAGRAMS"}, writes |-> << [field |-> "OutDatagrams", read |-> "pcp_read_u64", descs |-> "A_NET_UDP", metric |-> ENUM.NET_UDP_OUTDATAGRAMS, conv |-> "none", inst |-> NO_INST] >>],
        [pmids |-> {"PMID_NET_UDP_NOPORTS"}, writes |-> << [field |-> "NoPorts", read |-> "pcp_read_u64", descs |-> "A_NET_UDP", metric |-> ENUM.NET_UDP_NOPORTS, conv |-> "none", inst |-> NO_INST] >>],
        [pmids |-> {"PMID_NET_UDP_INERRORS"}, writes |-> << [field |-> "InErrors", read |-> "pcp_read_u64", descs |-> "A_NET_UDP", metric |-> ENUM.NET_UDP_INERRORS, conv |-> "none", inst |-> NO_INST] >>] >>],
    pcp_read_net_sock6_stats |->
      [realloc |-> FALSE, cases |-> << [pmids |-> {"PMID_NET_SOCK6_TCPINUSE"}, writes |-> << [field |-> "tcp6_inuse", read |-> "pcp_read_u64", descs |-> "A_NET_SOCK6", metric |-> ENUM.NET_SOCK6_TCPINUSE, conv |-> "none", inst |-> NO_INST] >>],
        [pmids |-> {"PMID_NET_SOCK6_UDPINUSE"}, writes |-> << [field |-> "udp6_inuse", read |-> "pcp_read_u64", descs |-> "A_NET_SOCK6", metric |-> ENUM.NET_SOCK6_UDPINUSE, conv |-> "none", inst |-> NO_INST] >>],
        [pmids |-> {"PMID_NET_SOCK6_RAWINUSE"}, writes |-> << [field |-> "raw6_inuse", read |-> "pcp_read_u64", descs |-> "A_NET_SOCK6", metric |-> ENUM.NET_SOCK6_RAWINUSE, conv |-> "none", inst |-> NO_INST] >>],
        [pmids |-> {"PMID_NET_SOCK6_FRAGINUSE"}, writes |-> << [field |-> "frag6_inuse", read |-> "pcp_read_u64", descs |-> "A_NET_SOCK6", metric |-> ENUM.NET_SOCK6_FRAGINUSE, conv |-> "none", inst |-> NO_INST] >>] >>],
    pcp_read_net_ip6_stats |->
      [realloc |-> FALSE, cases |-> << [pmids |-> {"PMID_NET_IP6_INRECEIVES"}, writes |-> << [field |-> "InReceives6", read |-> "pcp_read_u64", descs |-> "A_NET_IP6", metric |-> ENUM.NET_IP6_INRECEIVES, conv |-> "none", inst |-> NO_INST] >>],
        [pmids |-> {"PMID_NET_IP6_OUTFORWDATAGRAMS"}, writes |-> << [field |-> "OutForwDatagrams6", read |-> "pcp_read_u64", descs |-> "A_NET_IP6", metric |-> ENUM.NET_IP6_OUTFORWDATAGRAMS, conv |-> "none", inst |-> NO_INST] >>],
        [pmids |-> {"PMID_NET_IP6_INDELIVERS"}, writes |-> << [field |-> "InDelivers6", read |-> "pcp_read_u64", descs |-> "A_NET_IP6", metric |-> ENUM.NET_IP6_INDELIVERS, conv |-> "none", inst |-> NO_INST] >>],
        [pmids |-> {"PMID_NET_IP6_OUTREQUESTS"}, writes |-> << [field |-> "OutRequests6", read |-> "pcp_read_u64", descs |-> "A_NET_IP6", metric |-> ENUM.NET_IP6_OUTREQUESTS, conv |-> "none", inst |-> NO_INST] >>],
        [pmids |-> {"PMID_NET_IP6_REASMREQDS"}, writes |-> << [field |-> "ReasmReqds6", read |-> "pcp_read_u64", descs |-> "A_NET_IP6", metric |-> ENUM.NET_IP6_REASMREQDS, conv |-> "none", inst |-> NO_INST] >>],
        [pmids |-> {"PMID_NET_IP6_REASMOKS"}, writes |-> << [field |-> "ReasmOKs6", read |-> "pcp_read_u64", descs |-> "A_NET_IP6", metric |-> ENUM.NET_IP6_REASMOKS, conv |-> "none", inst |-> NO_INST] >>],
        [pmids |-> {"PMID_NET_IP6_INMCASTPKTS"}, writes |-> << [field |-> "InMcastPkts6", read |-> "pcp_read_u64", descs |-> "A_NET_IP6", metric |-> ENUM.NET_IP6_INMCASTPKTS, conv |-> "none", inst |-> NO_INST] >>],
        [pmids |-> {"PMID_NET_IP6_OUTMCASTPKTS"}, writes |-> << [field |-> "OutMcastPkts6", read |-> "pcp_read_u64", descs |-> "A_NET_IP6", metric |-> ENUM.NET_IP6_OUTMCASTPKTS, conv |-> "none", inst |-> NO_INST] >>],
        [pmids |-> {"PMID_NET_IP6_FRAGOKS"}, writes |-> << [field |-> "FragOKs6", read |-> "pcp_read_u64", descs |-> "A_NET_IP6", metric |-> ENUM.NET_IP6_FRAGOKS, conv |-> "none", inst |-> NO_INST] >>],
        [pmids |-> {"PMID_NET_IP6_FRAGCREATES"}, writes |-> << [field |-> "FragCreates6", read |-> "pcp_read_u64", descs |-> "A_NET_IP6", metric |-> ENUM.NET_IP6_FRAGCREATES, conv |-> "none", inst |-> NO_INST] >>] >>],
    pcp_read_net_eip6_stats |->
      [realloc |-> FALSE, cases |-> << [pmids |-> {"PMID_NET_EIP6_INHDRERRORS"}, writes |-> << [field |-> "InHdrErrors6", read |-> "pcp_read_u64", descs |-> "A_NET_EIP6", metric |-> ENUM.NET_EIP6_INHDRERRORS, conv |-> "none", inst |-> NO_INST] >>],
        [pmids |-> {"PMID_NET_EIP6_INADDRERRORS"}, writes |-> << [field |-> "InAddrErrors6", read |-> "pcp_read_u64", descs |-> "A_NET_EIP6", metric |-> ENUM.NET_EIP6_INADDRERRORS, conv |-> "none", inst |-> NO_INST] >>],
        [pmids |-> {"PMID_NET_EIP6_INUNKNOWNPROTOS"}, writes |-> << [field |-> "InUnknownProtos6", read |-> "pcp_read_u64", descs |-> "A_NET_EIP6", metric |-> ENUM.NET_EIP6_INUNKNOWNPROTOS, conv |-> "none", inst |-> NO_INST] >>],
        [pmids |-> {"PMID_NET_EIP6_INTOOBIGERRORS"}, writes |-> << [field |-> "InTooBigErrors6", read |-> "pcp_read_u64", descs |-> "A_NET_EIP6", metric |-> ENUM.NET_EIP6_INTOOBIGERRORS, conv |-> "none", inst |-> NO_INST] >>],
        [pmids |-> {"PMID_NET_EIP6_INDISCARDS"}, writes |-> << [field |-> "InDiscards6", read |-> "pcp_read_u64", descs |-> "A_NET_EIP6", metric |-> ENUM.NET_EIP6_INDISCARDS, conv |-> "none", inst |-> NO_INST] >>],
        [pmids |-> {"PMID_NET_EIP6_OUTDISCARDS"}, writes |-> << [field |-> "OutDiscards6", read |-> "pcp_read_u64", descs |-> "A_NET_EIP6", metric |-> ENUM.NET_EIP6_OUTDISCARDS, conv |-> "none", inst |-> NO_INST] >>],
        [pmids |-> {"PMID_NET_EIP6_INNOROUTES"}, writes |-> << [field |-> "InNoRoutes6", read |-> "pcp_read_u64", descs |-> "A_NET_EIP6", metric |-> ENUM.NET_EIP6_INNOROUTES, conv |-> "none", inst |-> NO_INST] >>],
        [pmids |-> {"PMID_NET_EIP6_OUTNOROUTES"}, writes |-> << [field |-> "OutNoRoutes6", read |-> "pcp_read_u64", descs |-> "A_NET_EIP6", metric |-> ENUM.NET_EIP6_OUTNOROUTES, conv |-> "none", inst |-> NO_INST] >>],
        [pmids |-> {"PMID_NET_EIP6_REASMFAILS"}, writes |-> << [field |-> "ReasmFails6", read |-> "pcp_read_u64", descs |-> "A_NET_EIP6", metric |-> ENUM.NET_EIP6_REASMFAILS, conv |-> "none", inst |-> NO_INST] >>],
        [pmids |-> {"PMID_NET_EIP6_FRAGFAILS"}, writes |-> << [field |-> "FragFails6", read |-> "pcp_read_u64", descs |-> "A_NET_EIP6", metric |-> ENUM.NET_EIP6_FRAGFAILS, conv |-> "none", inst |-> NO_INST] >>],
        [pmids |-> {"PMID_NET_EIP6_INTRUNCATEDPKTS"}, writes |-> << [field |-> "InTruncatedPkts6", read |-> "pcp_read_u64", descs |-> "A_NET_EIP6", metric |-> ENUM.NET_EIP6_INTRUNCATEDPKTS, conv |-> "none", inst |-> NO_INST] >>] >>],
    pcp_read_net_icmp6_stats |->
      [realloc |-> FALSE, cases |-> << [pmids |-> {"PMID_NET_ICMP6_INMSGS"}, writes |-> << [field |-> "InMsgs6", read |-> "pcp_read_u64", descs |-> "A_NET_ICMP6", metric |-> ENUM.NET_ICMP6_INMSGS, conv |-> "none", inst |-> NO_INST] >>],
        [pmids |-> {"PMID_NET_ICMP6_OUTMSGS"}, writes |-> << [field |-> "OutMsgs6", read |-> "pcp_read_u64", descs |-> "A_NET_ICMP6", metric |-> ENUM.NET_ICMP6_OUTMSGS, conv |-> "none", inst |-> NO_INST] >>],
        [pmids |-> {"PMID_NET_ICMP6_INECHOS"}, writes |-> << [field |-> "InEchos6", read |-> "pcp_read_u64", descs |-> "A_NET_ICMP6", metric |-> ENUM.NET_ICMP6_INECHOS, conv |-> "none", inst |-> NO_INST] >>],
        [pmids |-> {"PMID_NET_ICMP6_INECHOREPLIES"}, writes |-> << [field |-> "InEchoReplies6", read |-> "pcp_read_u64", descs |-> "A_NET_ICMP6", metric |-> ENUM.NET_ICMP6_INECHOREPLIES, conv |-> "none", inst |-> NO_INST] >>],
        [pmids |-> {"PMID_NET_ICMP6_OUTECHOREPLIES"}, writes |-> << [field |-> "OutEchoReplies6", read |-> "pcp_read_u64", descs |-> "A_NET_ICMP6", metric |-> ENUM.NET_ICMP6_OUTECHOREPLIES, conv |-> "none", inst |-> NO_INST] >>],
        [pmids |-> {"PMID_NET_ICMP6_INGROUPMEMBQUERIES"}, writes |-> << [field |-> "InGroupMembQueries6", read |-> "pcp_read_u64", descs |-> "A_NET_ICMP6", metric |-> ENUM.NET_ICMP6_INGROUPMEMBQUERIES, conv |-> "none", inst |-> NO_INST] >>],
        [pmids |-> {"PMID_NET_ICMP6_INGROUPMEMBRESPONSES"}, writes |-> << [field |-> "InGroupMembResponses6", read |-> "pcp_read_u64", descs |-> "A_NET_ICMP6", metric |-> ENUM.NET_ICMP6_INGROUPMEMBRESPONSES, conv |-> "none", inst |-> NO_INST] >>],
        [pmids |-> {"PMID_NET_ICMP6_OUTGROUPMEMBRESPONSES"}, writes |-> << [field |-> "OutGroupMembResponses6", read |-> "pcp_read_u64", descs |-> "A_NET_ICMP6", metric |-> ENUM.NET_ICMP6_OUTGROUPMEMBRESPONSES, conv |-> "none", inst |-> NO_INST] >>],
        [pmids |-> {"PMID_NET_ICMP6_INGROUPMEMBREDUCTIONS"}, writes |-> << [field |-> "InGroupMembReductions6", read |-> "pcp_read_u64", descs |-> "A_NET_ICMP6", metric |-> ENUM.NET_ICMP6_INGROUPMEMBREDUCTIONS, conv |-> "none", inst |-> NO_INST] >>],
        [pmids |-> {"PMID_NET_ICMP6_OUTGROUPMEMBREDUCTIONS"}, writes |-> << [field |-> "OutGroupMembReductions6", read |-> "pcp_read_u64", descs |-> "A_NET_ICMP6", metric |-> ENUM.NET_ICMP6_OUTGROUPMEMBREDUCTIONS, conv |-> "none", inst |-> NO_INST] >>],
        [pmids |-> {"PMID_NET_ICMP6_INROUTERSOLICITS"}, writes |-> << [field |-> "InRouterSolicits6", read |-> "pcp_read_u64", descs |-> "A_NET_ICMP6", metric |-> ENUM.NET_ICMP6_INROUTERSOLICITS, conv |-> "none", inst |-> NO_INST] >>],
        [pmids |-> {"PMID_NET_ICMP6_OUTROUTERSOLICITS"}, writes |-> << [field |-> "OutRouterSolicits6", read |-> "pcp_read_u64", descs |-> "A_NET_ICMP6", metric |-> ENUM.NET_ICMP6_OUTROUTERSOLICITS, conv |-> "none", inst |-> NO_INST] >>],
        [pmids |-> {"PMID_NET_ICMP6_INROUTERADVERTISEMENTS"}, writes |-> << [field |-> "InRouterAdvertisements6", read |-> "pcp_read_u64", descs |-> "A_NET_ICMP6", metric |-> ENUM.NET_ICMP6_INROUTERADVERTISEMENTS, conv |-> "none", inst |-> NO_INST] >>],
        [pmids |-> {"PMID_NET_ICMP6_INNEIGHBORSOLICITS"}, writes |-> << [field |-> "InNeighborSolicits6", read |-> "pcp_read_u64", descs |-> "A_NET_ICMP6", metric |-> ENUM.NET_ICMP6_INNEIGHBORSOLICITS, conv |-> "none", inst |-> NO_INST] >>],
        [pmids |-> {"PMID_NET_ICMP6_OUTNEIGHBORSOLICITS"}, writes |-> << [field |-> "OutNeighborSolicits6", read |-> "pcp_read_u64", descs |-> "A_NET_ICMP6", metric |-> ENUM.NET_ICMP6_OUTNEIGHBORSOLICITS, conv |-> "none", inst |-> NO_INST] >>],
        [pmids |-> {"PMID_NET_ICMP6_INNEIGHBORADVERTISEMENTS"}, writes |-> << [field |-> "InNeighborAdvertisements6", read |-> "pcp_read_u64", descs |-> "A_NET_ICMP6", metric |-> ENUM.NET_ICMP6_INNEIGHBORADVERTISEMENTS, conv |-> "none", inst |-> NO_INST] >>],
        [pmids |-> {"PMID_NET_ICMP6_OUTNEIGHBORADVERTISEMENTS"}, writes |-> << [field |-> "OutNeighborAdvertisements6", read |-> "pcp_read_u64", descs |-> "A_NET_ICMP6", metric |-> ENUM.NET_ICMP6_OUTNEIGHBORADVERTISEMENTS, conv |-> "none", inst |-> NO_INST] >>] >>],
    pcp_read_net_eicmp6_stats |->
      [realloc |-> FALSE, cases |-> << [pmids |-> {"PMID_NET_EICMP6_INERRORS"}, writes |-> << [field |-> "InErrors6", read |-> "pcp_read_u64", descs |-> "A_NET_EICMP6", metric |-> ENUM.NET_EICMP6_INERRORS, conv |-> "none", inst |-> NO_INST] >>],
        [pmids |-> {"PMID_NET_EICMP6_INDESTUNREACHS"}, writes |-> << [field |-> "InDestUnreachs6", read |-> "pcp_read_u64", descs |-> "A_NET_EICMP6", metric |-> ENUM.NET_EICMP6_INDESTUNREACHS, conv |-> "none", inst |-> NO_INST] >>],
        [pmids |-> {"PMID_NET_EICMP6_OUTDESTUNREACHS"}, writes |-> << [field |-> "OutDestUnreachs6", read |-> "pcp_read_u64", descs |-> "A_NET_EICMP6", metric |-> ENUM.NET_EICMP6_OUTDESTUNREACHS, conv |-> "none", inst |-> NO_INST] >>],
        [pmids |-> {"PMID_NET_EICMP6_INTIMEEXCDS"}, writes |-> << [field |-> "InTimeExcds6", read |-> "pcp_read_u64", descs |-> "A_NET_EICMP6", metric |-> ENUM.NET_EICMP6_INTIMEEXCDS, conv |-> "none", inst |-> NO_INST] >>],
        [pmids |-> {"PMID_NET_EICMP6_OUTTIMEEXCDS"}, writes |-> << [field |-> "OutTimeExcds6", read |-> "pcp_read_u64", descs |-> "A_NET_EICMP6", metric |-> ENUM.NET_EICMP6_OUTTIMEEXCDS, conv |-> "none", inst |-> NO_INST] >>],
        [pmids |-> {"PMID_NET_EICMP6_INPARMPROBLEMS"}, writes |-> << [field |-> "InParmProblems6", read |-> "pcp_read_u64", descs |-> "A_NET_EICMP6", metric |-> ENUM.NET_EICMP6_INPARMPROBLEMS, conv |-> "none", inst |-> NO_INST] >>],
        [pmids |-> {"PMID_NET_EICMP6_OUTPARMPROBLEMS"}, writes |-> << [field |-> "OutParmProblems6", read |-> "pcp_read_u64", descs |-> "A_NET_EICMP6", metric |-> ENUM.NET_EICMP6_OUTPARMPROBLEMS, conv |-> "none", inst |-> NO_INST] >>],
        [pmids |-> {"PMID_NET_EICMP6_INREDIRECTS"}, writes |-> << [field |-> "InRedirects6", read |-> "pcp_read_u64", descs |-> "A_NET_EICMP6", metric |-> ENUM.NET_EICMP6_INREDIRECTS, conv |-> "none", inst |-> NO_INST] >>],
        [pmids |-> {"PMID_NET_EICMP6_OUTREDIRECTS"}, writes |-> << [field |-> "OutRedirects6", read |-> "pcp_read_u64", descs |-> "A_NET_EICMP6", metric |-> ENUM.NET_EICMP6_OUTREDIRECTS, conv |-> "none", inst |-> NO_INST] >>],
        [pmids |-> {"PMID_NET_EICMP6_INPKTTOOBIGS"}, writes |-> << [field |-> "InPktTooBigs6", read |-> "pcp_read_u64", descs |-> "A_NET_EICMP6", metric |-> ENUM.NET_EICMP6_INPKTTOOBIGS, conv |-> "none", inst |-> NO_INST] >>],
        [pmids |-> {"PMID_NET_EICMP6_OUTPKTTOOBIGS"}, writes |-> << [field |-> "OutPktTooBigs6", read |-> "pcp_read_u64", descs |-> "A_NET_EICMP6", metric |-> ENUM.NET_EICMP6_OUTPKTTOOBIGS, conv |-> "none", inst |-> NO_INST] >>] >>],
    pcp_read_net_udp6_stats |->
      [realloc |-> FALSE, cases |-> << [pmids |-> {"PMID_NET_UDP6_INDATAGRAMS"}, writes |-> << [field |-> "InDatagrams6", read |-> "pcp_read_u64", descs |-> "A_NET_UDP6", metric |-> ENUM.NET_UDP6_INDATAGRAMS, conv |-> "none", inst |-> NO_INST] >>],
        [pmids |-> {"PMID_NET_UDP6_OUTDATAGRAMS"}, writes |-> << [field |-> "OutDatagrams6", read |-> "pcp_read_u64", descs |-> "A_NET_UDP6", metric |-> ENUM.NET_UDP6_OUTDATAGRAMS, conv |-> "none", inst |-> NO_INST] >>],
        [pmids |-> {"PMID_NET_UDP6_NOPORTS"}, writes |-> << [field |-> "NoPorts6", read |-> "pcp_read_u64", descs |-> "A_NET_UDP6", metric |-> ENUM.NET_UDP6_NOPORTS, conv |-> "none", inst |-> NO_INST] >>],
        [pmids |-> {"PMID_NET_UDP6_INERRORS"}, writes |-> << [field |-> "InErrors6", read |-> "pcp_read_u64", descs |-> "A_NET_UDP6", metric |-> ENUM.NET_UDP6_INERRORS, conv |-> "none", inst |-> NO_INST] >>] >>],
    pcp_read_pwr_cpufreq_stats |->
      [realloc |-> FALSE, cases |-> <<  >>],
    pcp_read_power_fan_stats |->
      [realloc |-> FALSE, cases |-> <<  >>],
    pcp_read_power_temp_stats |->
      [realloc |-> FALSE, cases |-> <<  >>],
    pcp_read_power_in_stats |->
      [realloc |-> FALSE, cases |-> <<  >>],
    pcp_read_power_bat_stats |->
      [realloc |-> FALSE, cases |-> <<  >>],
    pcp_read_huge_stats |->
      [realloc |-> FALSE, cases |-> << [pmids |-> {"PMID_MEM_HUGE_TOTALBYTES"}, writes |-> << [field |-> "tlhkb", read |-> "pcp_read_u64", descs |-> "A_HUGE", metric |-> ENUM.MEM_HUGE_TOTALBYTES, conv |-> "none", inst |-> NO_INST] >>],
        [pmids |-> {"PMID_MEM_HUGE_FREEBYTES"}, writes |-> << [field |-> "frhkb", read |-> "pcp_read_u64", descs |-> "A_HUGE", metric |-> ENUM.MEM_HUGE_FREEBYTES, conv |-> "none", inst |-> NO_INST] >>],
        [pmids |-> {"PMID_MEM_HUGE_RSVDBYTES"}, writes |-> << [field |-> "rsvdhkb", read |-> "pcp_read_u64", descs |-> "A_HUGE", metric |-> ENUM.MEM_HUGE_RSVDBYTES, conv |-> "none", inst |-> NO_INST] >>],
        [pmids |-> {"PMID_MEM_HUGE_SURPBYTES"}, writes |-> << [field |-> "surphkb", read |-> "pcp_read_u64", descs |-> "A_HUGE", metric |-> ENUM.MEM_HUGE_SURPBYTES, conv |-> "none", inst |-> NO_INST] >>] >>],
    pcp_read_power_usb_stats |->
      [realloc |-> FALSE, cases |-> <<  >>],
    pcp_read_filesystem_stats |->
      [realloc |-> FALSE, cases |-> <<  >>],
    pcp_read_fchost_stats |->
      [realloc |-> FALSE, cases |-> <<  >>],
    pcp_read_psicpu_stats |->
      [realloc |-> FALSE, cases |-> << [pmids |-> {"PMID_PSI_CPU_SOMETOTAL"}, writes |-> << [field |-> "some_cpu_total", read |-> "pcp_read_u64", descs |-> "A_PSI_CPU", metric |-> ENUM.PSI_CPU_SOMETOTAL, conv |-> "none", inst |-> NO_INST] >>],
        [pmids |-> {"PMID_PSI_CPU_SOMEAVG"}, writes |-> << [field |-> "some_acpu_10", read |-> "pcp_read_float", descs |-> "A_PSI_CPU", metric |-> ENUM.PSI_CPU_SOMEAVG, conv |-> "trunc_then_scale", inst |-> 10],
            [field |-> "some_acpu_60", read |-> "pcp_read_float", descs |-> "A_PSI_CPU", metric |-> ENUM.PSI_CPU_SOMEAVG, conv |-> "trunc_then_scale", inst |-> 60],
            [field |-> "some_acpu_300", read |-> "pcp_read_float", descs |-> "A_PSI_CPU", metric |-> ENUM.PSI_CPU_SOMEAVG, conv |-> "trunc_then_scale", inst |-> 300] >>] >>],
    pcp_read_psiio_stats |->
      [realloc |-> FALSE, cases |-> << [pmids |-> {"PMID_PSI_IO_SOMETOTAL"}, writes |-> << [field |-> "some_io_total", read |-> "pcp_read_u64", descs |-> "A_PSI_IO", metric |-> ENUM.PSI_IO_SOMETOTAL, conv |-> "none", inst |-> NO_INST] >>],
        [pmids |-> {"PMID_PSI_IO_SOMEAVG"}, writes |-> << [field |-> "some_aio_10", read |-> "pcp_read_float", descs |-> "A_PSI_IO", metric |-> ENUM.PSI_IO_SOMEAVG, conv |-> "trunc_then_scale", inst |-> 10],
            [field |-> "some_aio_60", read |-> "pcp_read_float", descs |-> "A_PSI_IO", metric |-> ENUM.PSI_IO_SOMEAVG, conv |-> "trunc_then_scale", inst |-> 60],
            [field |-> "some_aio_300", read |-> "pcp_read_float", descs |-> "A_PSI_IO", metric |-> ENUM.PSI_IO_SOMEAVG, conv |-> "trunc_then_scale", inst |-> 300] >>],
        [pmids |-> {"PMID_PSI_IO_FULLTOTAL"}, writes |-> << [field |-> "full_io_total", read |-> "pcp_read_u64", descs |-> "A_PSI_IO", metric |-> ENUM.PSI_IO_FULLTOTAL, conv |-> "none", inst |-> NO_INST] >>],
        [pmids |-> {"PMID_PSI_IO_FULLAVG"}, writes |-> << [field |-> "full_aio_10", read |-> "pcp_read_float", descs |-> "A_PSI_IO", metric |-> ENUM.PSI_IO_FULLAVG, conv |-> "trunc_then_scale", inst |-> 10],
            [field |-> "full_aio_60", read |-> "pcp_read_float", descs |-> "A_PSI_IO", metric |-> ENUM.PSI_IO_FULLAVG, conv |-> "trunc_then_scale", inst |-> 60],
            [field |-> "full_aio_300", read |-> "pcp_read_float", descs |-> "A_PSI_IO", metric |-> ENUM.PSI_IO_FULLAVG, conv |-> "trunc_then_scale", inst |-> 300] >>] >>],
    pcp_read_psimem_stats |->
      [realloc |-> FALSE, cases |-> << [pmids |-> {"PMID_PSI_MEM_SOMETOTAL"}, writes |-> << [field |-> "some_mem_total", read |-> "pcp_read_u64", descs |-> "A_PSI_MEM", metric |-> ENUM.PSI_MEM_SOMETOTAL, conv |-> "none", inst |-> NO_INST] >>],
        [pmids |-> {"PMID_PSI_MEM_SOMEAVG"}, writes |-> << [field |-> "some_amem_10", read |-> "pcp_read_float", descs |-> "A_PSI_MEM", metric |-> ENUM.PSI_MEM_SOMEAVG, conv |-> "trunc_then_scale", inst |-> 10],
            [field |-> "some_amem_60", read |-> "pcp_read_float", descs |-> "A_PSI_MEM", metric |-> ENUM.PSI_MEM_SOMEAVG, conv |-> "trunc_then_scale", inst |-> 60],
            [field |-> "some_amem_300", read |-> "pcp_read_float", descs |-> "A_PSI_MEM", metric |-> ENUM.PSI_MEM_SOMEAVG, conv |-> "trunc_then_scale", inst |-> 300] >>],
        [pmids |-> {"PMID_PSI_MEM_FULLTOTAL"}, writes |-> << [field |-> "full_mem_total", read |-> "pcp_read_u64", descs |-> "A_PSI_MEM", metric |-> ENUM.PSI_MEM_FULLTOTAL, conv |-> "none", inst |-> NO_INST] >>],
        [pmids |-> {"PMID_PSI_MEM_FULLAVG"}, writes |-> << [field |-> "full_amem_10", read |-> "pcp_read_float", descs |-> "A_PSI_MEM", metric |-> ENUM.PSI_MEM_FULLAVG, conv |-> "trunc_then_scale", inst |-> 10],
            [field |-> "full_amem_60", read |-> "pcp_read_float", descs |-> "A_PSI_MEM", metric |-> ENUM.PSI_MEM_FULLAVG, conv |-> "trunc_then_scale", inst |-> 60],
            [field |-> "full_amem_300", read |-> "pcp_read_float", descs |-> "A_PSI_MEM", metric |-> ENUM.PSI_MEM_FULLAVG, conv |-> "trunc_then_scale", inst |-> 300] >>] >>],
    pcp_read_file_header_stats |->
      [realloc |-> FALSE, cases |-> << [pmids |-> {"PMID_FILE_HEADER_CPU_COUNT"}, writes |-> << [field |-> "sa_cpu_nr", read |-> "pcp_read_u32", descs |-> "FILE_HEADER", metric |-> ENUM.FILE_HEADER_CPU_COUNT, conv |-> "none", inst |-> NO_INST] >>],
        [pmids |-> {"PMID_FILE_HEADER_KERNEL_HERTZ"}, writes |-> << [field |-> "sa_hz", read |-> "pcp_read_u32", descs |-> "FILE_HEADER", metric |-> ENUM.FILE_HEADER_KERNEL_HERTZ, conv |-> "none", inst |-> NO_INST] >>],
        [pmids |-> {"PMID_FILE_HEADER_UNAME_SYSNAME"}, writes |-> << [field |-> "sa_sysname", read |-> "pcp_read_str", descs |-> "FILE_HEADER", metric |-> ENUM.FILE_HEADER_UNAME_SYSNAME, conv |-> "none", inst |-> NO_INST] >>],
        [pmids |-> {"PMID_FILE_HEADER_UNAME_RELEASE"}, writes |-> << [field |-> "sa_release", read |-> "pcp_read_str", descs |-> "FILE_HEADER", metric |-> ENUM.FILE_HEADER_UNAME_RELEASE, conv |-> "none", inst |-> NO_INST] >>],
        [pmids |-> {"PMID_FILE_HEADER_UNAME_NODENAME"}, writes |-> << [field |-> "sa_nodename", read |-> "pcp_read_str", descs |-> "FILE_HEADER", metric |-> ENUM.FILE_HEADER_UNAME_NODENAME, conv |-> "none", inst |-> NO_INST] >>],
        [pmids |-> {"PMID_FILE_HEADER_UNAME_MACHINE"}, writes |-> << [field |-> "sa_machine", read |-> "pcp_read_str", descs |-> "FILE_HEADER", metric |-> ENUM.FILE_HEADER_UNAME_MACHINE, conv |-> "none", inst |-> NO_INST] >>] >>],
    pcp_read_record_header_stats |->
      [realloc |-> FALSE, cases |-> << [pmids |-> {"PMID_RECORD_HEADER_KERNEL_UPTIME"}, writes |-> << [field |-> "uptime_cs", read |-> "pcp_read_double", descs |-> "RECORD_HEADER", metric |-> ENUM.RECORD_HEADER_KERNEL_UPTIME, conv |-> "scale_then_trunc", inst |-> NO_INST] >>] >>] ]

(***************************************************************************)
(* State.                                                                  *)
(***************************************************************************)
VARIABLES
  pc,           \* state of the session
  mode,         \* "export" (an archive is written) or "import" (read)
  curr,         \* index of the current sample slot
  act,          \* act[a]: the counters of struct activity for activity a
  bitmap,       \* the selected bits of a->bitmap->b_array (0 is CPU "all")
  item_list,    \* a->item_list: the names entered on the command line
  offline,      \* CPUs found offline in the current sample
  buf,          \* the raw records: <<a, slot, record, field>> -> value
  pmi_metrics,  \* the calls handed to pmiAddMetric, in order
  pmi_insts,    \* the calls handed to pmiAddInstance, in order
  pmi_values,   \* the calls handed to pmiPutValue by the last writer
  setup,        \* the function-local "static int setup" flags that are set
  defined,      \* activities whose definition routine has returned
  nsamples,     \* samples processed so far
  nimports,     \* value sets imported in the current sample
  seen,         \* seen[a]: the largest count handed to
                \* pcp_reallocate_buffers for a so far (-1: none yet)
  call          \* the last call and what it did

vars == <<pc, mode, curr, act, bitmap, item_list, offline, buf, pmi_metrics,
          pmi_insts, pmi_values, setup, defined, nsamples, nimports, seen,
          call>>

Groups == DOMAIN metrics
Activities == Groups \ {"FILE_HEADER", "RECORD_HEADER"}

NoCall ==
  [op |-> "none", a |-> "none", pmid |-> 0, metric |-> 0, numval |-> 0,
   reader |-> "none", result |-> "none", events |-> << >>,
   vlist |-> << >>]

\* struct activity before any sample: nothing observed; alloc records are
\* allocated and ini is nr_ini (-1 while the count is unknown).
NewActivity(alloc, ini) ==
  [nr |-> <<0, 0>>, nr_allocated |-> alloc, nr_ini |-> ini, nr2 |-> 1]

EmptyBuf == [k \in {} |-> 0]

Max(S) == CHOOSE x \in S : \A y \in S : y <= x

(***************************************************************************)
(* act_add_metric and act_add_instance (pcp_def_metrics.c).                *)
(*                                                                         *)
(* A definition routine runs on a record st = [status, metrics, insts]:    *)
(* status is "ok" while the routine runs, "PANIC" once PANIC() was called  *)
(* and "crash" when a read outside an array faulted; metrics and insts are *)
(* the calls made to pmiAddMetric and pmiAddInstance so far.               *)
(***************************************************************************)
NewStore ==
  [status |-> "ok", metrics |-> << >>, insts |-> << >>, values |-> {}]

\* PANIC(EINVAL): the program stops with an internal error.
PANIC(st) == [st EXCEPT !.status = "PANIC"]

\* What a read of names[metric] and descs[metric] outside the arrays may
\* yield when it does not fault: whatever lies behind the arrays.
GarbageDescs ==
  { [pmid |-> 0, indom |-> 0, type |-> "garbage", sem |-> "garbage"] }

\* names[metric] and &descs[metric]: the entry when metric is inside the
\* arrays; an undefined read (a fault, or garbage) when it is not.
ReadEntry(m, metric) ==
  IF metric \in 0..(Len(m.descs) - 1)
    THEN { [fault |-> FALSE, name |-> m.names[metric + 1],
            desc |-> m.descs[metric + 1]] }
    ELSE { [fault |-> f, name |-> "garbage", desc |-> d] :
             f \in BOOLEAN, d \in GarbageDescs }

pmiAddMetric(st, name, desc) ==
  [st EXCEPT !.metrics = Append(@, [name |-> name, pmid |-> desc.pmid,
                                    type |-> desc.type, indom |-> desc.indom,
                                    sem |-> desc.sem])]

pmiAddInstance(st, indom, name, inst) ==
  [st EXCEPT !.insts = Append(@, [indom |-> indom, name |-> name,
                                  inst |-> inst])]

act_add_metric(a, metric, st) ==
  LET m == metrics[a] IN
  IF st.status # "ok" THEN {st}
  ELSE IF m.count > metric THEN {PANIC(st)}
  ELSE { IF e.fault THEN [st EXCEPT !.status = "crash"]
                    ELSE pmiAddMetric(st, e.name, e.desc) :
         e \in ReadEntry(m, metric) }

act_add_instance(a, metric, name, inst, st) ==
  LET m == metrics[a] IN
  IF st.status # "ok" THEN {st}
  ELSE IF m.count > metric THEN {PANIC(st)}
  ELSE { IF e.fault THEN [st EXCEPT !.status = "crash"]
                    ELSE pmiAddInstance(st, e.desc.indom, name, inst) :
         e \in ReadEntry(m, metric) }

(***************************************************************************)
(* One call of act_add_metric or act_add_instance on a fresh store, for    *)
(* every catalog and every index up to MaxExtra past the catalog's count.  *)
(***************************************************************************)
Idle ==
  /\ pc = "CatalogsDefined" /\ curr = 0
  /\ bitmap = {} /\ item_list = << >> /\ offline = {}
  /\ buf = EmptyBuf
  /\ pmi_metrics = << >> /\ pmi_insts = << >> /\ pmi_values = {}
  /\ setup = {} /\ defined = {} /\ nsamples = 0 /\ nimports = 0
  /\ seen = [a \in Activities |-> -1]
  /\ call = NoCall

InitAct ==
  /\ Idle
  /\ mode = "export"
  /\ act = [a \in Activities |-> NewActivity(0, -1)]

AfterStore(op, a, metric, st) ==
  /\ pmi_metrics' = st.metrics
  /\ pmi_insts' = st.insts
  /\ pc' = CASE st.status = "PANIC" -> "Panicked"
             [] st.status = "crash" -> "Crashed"
             [] OTHER -> pc
  /\ call' = [NoCall EXCEPT !.op = op, !.a = a, !.metric = metric,
                            !.result = st.status]

ActAddMetric ==
  /\ call.op = "none"
  /\ \E a \in Activities :
       \E metric \in 0..(metrics[a].count + MaxExtra) :
         \E st \in act_add_metric(a, metric, NewStore) :
           AfterStore("act_add_metric", a, metric, st)
  /\ UNCHANGED <<mode, curr, act, bitmap, item_list, offline, buf,
                 pmi_values, setup, defined, nsamples, nimports, seen>>

ActAddInstance ==
  /\ call.op = "none"
  /\ \E a \in Activities :
       \E metric \in 0..(metrics[a].count + MaxExtra) :
         \E st \in act_add_instance(a, metric, "cpu0", 0, NewStore) :
           AfterStore("act_add_instance", a, metric, st)
  /\ UNCHANGED <<mode, curr, act, bitmap, item_list, offline, buf,
                 pmi_values, setup, defined, nsamples, nimports, seen>>

NextAct == ActAddMetric \/ ActAddInstance

SpecAct == InitAct /\ [][NextAct]_vars

(***************************************************************************)
(* Extracting a value from a value set (pcp_stats.c, pcp_read_u32 ...).    *)
(*                                                                         *)
(* A value set is [pmid, numval, vlist]; an element of vlist is            *)
(* [inst, value].  The widths of the integer types are scaled down.        *)
(***************************************************************************)
U32_BITS == 8
U64_BITS == 16

IntTypes == {"PM_TYPE_U32", "PM_TYPE_U64"}
FloatTypes == {"PM_TYPE_FLOAT", "PM_TYPE_DOUBLE"}

TypeMax(t) == IF t = "PM_TYPE_U32" THEN Pow2(U32_BITS) - 1
                                   ELSE Pow2(U64_BITS) - 1

\* What an atom that pmExtractValue did not fill may hold.
Uninitialized == {0, 1}

\* pmExtractValue: the value v of type itype as a value of type otype.
\* A value that does not fit, or types that do not convert, leave the atom
\* as it was.
pmExtractValue(v, itype, otype) ==
  CASE itype \in IntTypes /\ otype \in IntTypes ->
         IF v <= TypeMax(otype) THEN {v} ELSE Uninitialized
    [] itype \in FloatTypes /\ otype \in FloatTypes -> {v}
    [] itype \in IntTypes /\ otype \in FloatTypes -> {100 * v}
    [] itype \in FloatTypes /\ otype \in IntTypes ->
         IF v \div 100 <= TypeMax(otype) THEN {v \div 100} ELSE Uninitialized
    [] itype = "PM_TYPE_STRING" /\ otype = "PM_TYPE_STRING" -> {v}
    [] OTHER -> Uninitialized

\* The type each accessor asks pmExtractValue for.
AccessorType ==
  [pcp_read_u32 |-> "PM_TYPE_U32", pcp_read_u64 |-> "PM_TYPE_U64",
   pcp_read_float |-> "PM_TYPE_FLOAT", pcp_read_double |-> "PM_TYPE_DOUBLE",
   pcp_read_str |-> "PM_TYPE_STRING"]

\* pcp_read_u32, pcp_read_u64, pcp_read_float, pcp_read_double and
\* pcp_read_str; i counts from 0 as in the code.
pcp_read(read, values, i, descs, metric) ==
  pmExtractValue(values.vlist[i + 1].value, descs[metric + 1].type,
                 AccessorType[read])

\* The hundredths h in 0..400 for which the single-precision number
\* nearest to h/100, multiplied by 100.0 in double precision, lies below h.
FloatBelow ==
  { 1, 2, 3, 4, 6, 8, 11, 12, 13, 16, 19, 21, 22, 24, 26, 29,
    32, 35, 38, 39, 41, 42, 44, 45, 47, 48, 51, 52, 53, 57, 58, 59,
    63, 64, 65, 69, 70, 71, 76, 77, 78, 82, 83, 84, 88, 89, 90, 94,
    95, 96, 101, 102, 103, 104, 105, 106, 113, 114, 115, 116, 117, 118, 126, 127,
    128, 129, 130, 131, 138, 139, 140, 141, 142, 143, 151, 152, 153, 154, 155, 156,
    163, 164, 165, 166, 167, 168, 176, 177, 178, 179, 180, 181, 188, 189, 190, 191,
    192, 193, 201, 202, 203, 204, 205, 206, 207, 208, 209, 210, 211, 212, 226, 227,
    228, 229, 230, 231, 232, 233, 234, 235, 236, 237, 251, 252, 253, 254, 255, 256,
    257, 258, 259, 260, 261, 262, 276, 277, 278, 279, 280, 281, 282, 283, 284, 285,
    286, 287, 301, 302, 303, 304, 305, 306, 307, 308, 309, 310, 311, 312, 326, 327,
    328, 329, 330, 331, 332, 333, 334, 335, 336, 337, 351, 352, 353, 354, 355, 356,
    357, 358, 359, 360, 361, 362, 376, 377, 378, 379, 380, 381, 382, 383, 384, 385,
    386, 387 }

\* The same for the double-precision number nearest to h/100.
DoubleBelow ==
  { 29, 57, 58, 113, 114, 115, 116, 201, 203, 205, 207, 226, 228, 230, 232, 251,
    253, 255 }

\* The expression around the accessor, on a value x in hundredths:
\*   (unsigned int)(100.0 * x)   the product is truncated;
\*   100 * (unsigned long) x     x is truncated, then scaled.
Convert(conv, read, x) ==
  CASE conv = "none" -> x
    [] conv = "scale_then_trunc" ->
         IF \/ read = "pcp_read_float" /\ x \in FloatBelow
            \/ read = "pcp_read_double" /\ x \in DoubleBelow
           THEN x - 1 ELSE x
    [] conv = "trunc_then_scale" -> 100 * (x \div 100)

(***************************************************************************)
(* Buffers (pcp_stats.c, pcp_reallocate_buffers).                          *)
(*                                                                         *)
(* The import routines run on a record                                     *)
(*   s = [act, buf, seen, status, reader, events].                         *)
(***************************************************************************)
Ensure == [e |-> "ensure", field |-> ""]
Write(f) == [e |-> "write", field |-> f]

\* reallocate_buffers(a, nr_min, flags): grows the records of a to hold at
\* least nr_min of them; it never shrinks them.
reallocate_buffers(s, a, nr_min) ==
  LET least == Max({nr_min, s.act[a].nr_allocated}) IN
  { [s EXCEPT !.act[a].nr_allocated = n] : n \in least..Max({least, MaxAlloc}) }

\* A change of pcp_reallocate_buffers: the comparison the wrong way round.
pcp_reallocate_buffers_grow_when_smaller(values, a, curr_, s) ==
  LET n == values.numval
      s1 == [s EXCEPT !.act[a].nr[curr_ + 1] = n,
                      !.seen[a] = Max({@, n}),
                      !.events = Append(@, Ensure)]
      s2 == IF s1.act[a].nr_ini < 0
              THEN [s1 EXCEPT !.act[a].nr_ini = n, !.act[a].nr2 = n]
              ELSE s1
  IN IF n < s.act[a].nr_allocated THEN reallocate_buffers(s2, a, n)
                                  ELSE {s1}

pcp_reallocate_buffers(values, a, curr_, s) ==
  LET n == values.numval
      s1 == [s EXCEPT !.act[a].nr[curr_ + 1] = n,
                      !.seen[a] = Max({@, n}),
                      !.events = Append(@, Ensure)]
      s2 == IF s1.act[a].nr_ini < 0
              THEN [s1 EXCEPT !.act[a].nr_ini = n, !.act[a].nr2 = n]
              ELSE s1
  IN IF n > s.act[a].nr_allocated THEN reallocate_buffers(s2, a, n)
                                  ELSE {s1}

(***************************************************************************)
(* The readers and the dispatcher (pcp_stats.c).                           *)
(***************************************************************************)
Headers == {"FILE_HEADER", "RECORD_HEADER"}

\* The identifiers that a set of case labels stands for.
Pmids(labels) == {PMIDS[l] : l \in labels}

NewImport(act_, buf_, seen_) ==
  [act |-> act_, buf |-> buf_, seen |-> seen_, status |-> "ok",
   a |-> "none", reader |-> "none", events |-> << >>]

\* The field f of record 0 of a->buf[slot] becomes v.
StoreField(s, a, slot, f, v) ==
  [s EXCEPT !.buf = [k \in DOMAIN s.buf \cup {<<a, slot, 0, f>>} |->
                       IF k = <<a, slot, 0, f>> THEN v ELSE s.buf[k]],
            !.events = Append(@, Write(f))]

\* An assignment through (struct stats_x *) a->buf[curr], or to a field of
\* the file header or of record_hdr[curr].  With no record allocated the
\* assignment is undefined: it faults, or it lands.
WriteField(s, a, slot, f, v) ==
  IF s.status # "ok" THEN {s}
  ELSE IF a \in Headers THEN {StoreField(s, a, slot, f, v)}
  ELSE IF s.act[a].nr_allocated = 0
    THEN {[s EXCEPT !.status = "crash"], StoreField(s, a, slot, f, v)}
    ELSE {StoreField(s, a, slot, f, v)}

\* The assignments of one case of a reader's switch, in the order they are
\* run: one from vlist[0], or, in a loop over vlist, those whose instance
\* number is the one of the element.
\*
\* A change of Steps: in a loop over vlist every assignment of the case is
\* run for every element, whatever its instance number.
Steps_for_every_element(values, c) ==
  LET L == Len(c.writes)
      all == [k \in 1..(values.numval * L) |->
                [i |-> (k - 1) \div L, w |-> c.writes[((k - 1) % L) + 1]]]
  IN SelectSeq(all, LAMBDA st : st.w.inst = NO_INST => st.i = 0)

Steps(values, c) ==
  LET L == Len(c.writes)
      all == [k \in 1..(values.numval * L) |->
                [i |-> (k - 1) \div L, w |-> c.writes[((k - 1) % L) + 1]]]
  IN SelectSeq(all, LAMBDA st :
       \/ st.w.inst = NO_INST /\ st.i = 0
       \/ st.w.inst # NO_INST /\ values.vlist[st.i + 1].inst = st.w.inst)

RECURSIVE RunSteps(_, _, _, _, _)
RunSteps(steps, values, a, slot, S) ==
  IF steps = << >> THEN S
  ELSE LET st == Head(steps) IN
       RunSteps(Tail(steps), values, a, slot,
         UNION { UNION { WriteField(s, a, slot, st.w.field,
                                    Convert(st.w.conv, st.w.read, x)) :
                         x \in pcp_read(st.w.read, values, st.i,
                                        metrics[st.w.descs].descs,
                                        st.w.metric) } :
                 s \in S })

\* pcp_read_<x>_stats(values, a, curr), r naming the reader.
pcp_read_x_stats(r, values, a, curr_, s) ==
  LET S0 == IF readers[r].realloc
              THEN pcp_reallocate_buffers(values, a, curr_, s)
              ELSE {s}
      cs == SelectSeq(readers[r].cases,
                      LAMBDA c : values.pmid \in Pmids(c.pmids))
      slot == IF a = "FILE_HEADER" THEN 0 ELSE curr_
  IN IF cs = << >> THEN S0
     ELSE RunSteps(Steps(values, cs[1]), values, a, slot, S0)

\* The body of pcp_read_stats(values, header, curr) for a given table of
\* case blocks; dflt is what an identifier with no case label leads to (the
\* switch has no default label: "ok").  get_activity_position is called
\* with EXIT_IF_NOT_FOUND: an activity that is not in act[] ends the program.
pcp_read_stats_switch_on(blocks, dflt, values, curr_, s) ==
  IF values.numval <= 0 THEN {s}
  ELSE LET bs == SelectSeq(blocks, LAMBDA b : values.pmid \in Pmids(b.pmids))
       IN IF bs = << >> THEN {[s EXCEPT !.status = dflt]}
          ELSE IF bs[1].a \notin Headers \cup DOMAIN s.act
            THEN {[s EXCEPT !.status = "exit", !.a = bs[1].a]}
            ELSE pcp_read_x_stats(bs[1].reader, values, bs[1].a, curr_,
                                  [s EXCEPT !.a = bs[1].a,
                                            !.reader = bs[1].reader])

\* A change of pcp_read_stats: the case label PMID_CPU_ALLCPU_USER is
\* missing from the switch.
pcp_read_stats_without_cpu_user(values, curr_, s) ==
  pcp_read_stats_switch_on(
    [k \in DOMAIN pcp_read_stats_switch |->
       [pcp_read_stats_switch[k] EXCEPT !.pmids = @ \ {"PMID_CPU_ALLCPU_USER"}]],
    "ok", values, curr_, s)

\* A change of pcp_read_stats: a default label that ends the program.
pcp_read_stats_default_exits(values, curr_, s) ==
  pcp_read_stats_switch_on(pcp_read_stats_switch, "exit", values, curr_, s)

pcp_read_stats(values, curr_, s) ==
  pcp_read_stats_switch_on(pcp_read_stats_switch, "ok", values, curr_, s)

(***************************************************************************)
(* The value sets an archive may hand to pcp_read_stats.                   *)
(***************************************************************************)
Seq2Set(q) == {q[k] : k \in DOMAIN q}

CatalogPmids == UNION {{d.pmid : d \in Seq2Set(metrics[g].descs)} : g \in Groups}
SwitchPmids == UNION {Pmids(b.pmids) : b \in Seq2Set(pcp_read_stats_switch)}
UnknownPmids == {PMI_ID(60, 99, 0), PMI_ID(1, 0, 20)}
ImportPmids == CatalogPmids \cup SwitchPmids \cup UnknownPmids

\* The instance numbers some reader selects on for this identifier, and two
\* more.
CaseInsts(pmid) ==
  UNION { UNION { {w.inst : w \in Seq2Set(c.writes)} :
                  c \in {c \in Seq2Set(readers[r].cases) :
                           pmid \in Pmids(c.pmids)} } :
          r \in DOMAIN readers }

InstsOf(pmid) == (CaseInsts(pmid) \ {NO_INST}) \cup {0, 2}

ImportValues == {29, 300}

ValueSets(pmid) ==
  { [pmid |-> pmid, numval |-> -1, vlist |-> << >>] } \cup
  UNION { { [pmid |-> pmid, numval |-> n, vlist |-> vl] :
            vl \in { q \in [1..n -> [inst : InstsOf(pmid), value : ImportValues]] :
                     \A j \in 1..(n - 1) : q[j].inst < q[j + 1].inst } } :
          n \in 0..MaxNumval }

(***************************************************************************)
(* One call of pcp_read_stats, for every identifier and value set.         *)
(***************************************************************************)
InitRead ==
  /\ Idle
  /\ mode = "import"
  /\ \E alloc \in 0..1 :
       act = [a \in Activities |->
                NewActivity(alloc, IF alloc = 0 THEN -1 ELSE alloc)]

AfterImport(values, s) ==
  /\ act' = s.act
  /\ buf' = s.buf
  /\ seen' = s.seen
  /\ pc' = CASE s.status = "crash" -> "Crashed"
             [] s.status = "exit" -> "Closed"
             [] OTHER -> pc
  /\ call' = [op |-> "pcp_read_stats", a |-> s.a, pmid |-> values.pmid,
              metric |-> 0, numval |-> values.numval, reader |-> s.reader,
              result |-> s.status, events |-> s.events,
              vlist |-> values.vlist]

PcpReadStats ==
  /\ call.op = "none"
  /\ \E pmid \in ImportPmids, c \in 0..1 :
       \E values \in ValueSets(pmid) :
         \E s \in pcp_read_stats(values, c, NewImport(act, buf, seen)) :
           /\ curr' = c
           /\ AfterImport(values, s)
  /\ UNCHANGED <<mode, bitmap, item_list, offline, pmi_metrics, pmi_insts,
                 pmi_values, setup, defined, nsamples, nimports>>

NextRead == PcpReadStats

SpecRead == InitRead /\ [][NextRead]_vars

(***************************************************************************)
(* The definition routines (pcp_def_metrics.c).                            *)
(*                                                                         *)
(* A routine is written as the sequence of calls it makes; Run makes them  *)
(* on a store, in order, until one of them stops the program.              *)
(***************************************************************************)
AddMetric(m) ==
  [f |-> "act_add_metric", metric |-> ENUM[m], indom |-> 0, name |-> "",
   inst |-> 0, label |-> "", val |-> 0]

AddInstance(m, name, inst) ==
  [f |-> "act_add_instance", metric |-> ENUM[m], indom |-> 0, name |-> name,
   inst |-> inst, label |-> "", val |-> 0]

AddToIndom(indom, name, inst) ==
  [f |-> "pmiAddInstance", metric |-> 0, indom |-> indom, name |-> name,
   inst |-> inst, label |-> "", val |-> 0]

\* pmiPutValue(name, label, text): val is the number that text spells, in
\* hundredths where the text is that of a floating-point number.
Put(name, label, val) ==
  [f |-> "pmiPutValue", metric |-> 0, indom |-> 0, name |-> name,
   inst |-> 0, label |-> label, val |-> val]

pmiPutValue(st, name, label, val) ==
  [st EXCEPT !.values = @ \cup {[name |-> name, inst |-> label,
                                 val |-> val]}]

AddMetrics(ms) == [k \in DOMAIN ms |-> AddMetric(ms[k])]

RECURSIVE Run(_, _, _)
Run(a, calls, S) ==
  IF Len(calls) = 0 THEN S
  ELSE LET c == Head(calls) IN
       Run(a, Tail(calls),
           UNION { CASE c.f = "act_add_metric" ->
                          act_add_metric(a, c.metric, st)
                     [] c.f = "act_add_instance" ->
                          act_add_instance(a, c.metric, c.name, c.inst, st)
                     [] c.f = "pmiAddInstance" ->
                          IF st.status = "ok"
                            THEN {pmiAddInstance(st, c.indom, c.name, c.inst)}
                            ELSE {st}
                     [] OTHER ->
                          IF st.status = "ok"
                            THEN {pmiPutValue(st, c.name, c.label, c.val)}
                            ELSE {st} :
                   st \in S })

\* A change of pcp_def_percpu_intr_instances: the label names the position
\* of the CPU in the bitmap.
pcp_def_percpu_intr_instances_by_position(items, cpu) ==
  [k \in DOMAIN items |->
     AddInstance("CPU_PERCPU_INTERRUPTS",
                 items[k] \o "::cpu" \o ToString(cpu + 1), k - 1)]

pcp_def_percpu_intr_instances(items, cpu) ==
  [k \in DOMAIN items |->
     AddInstance("CPU_PERCPU_INTERRUPTS",
                 items[k] \o "::cpu" \o ToString(cpu), k - 1)]

pcp_def_percpu_intr_metrics == AddMetrics(<<"CPU_PERCPU_INTERRUPTS">>)

pcp_def_global_cpu_metrics ==
  AddMetrics(<<"CPU_ALLCPU_USER", "CPU_ALLCPU_NICE", "CPU_ALLCPU_SYS",
               "CPU_ALLCPU_IDLE", "CPU_ALLCPU_WAITTOTAL",
               "CPU_ALLCPU_IRQTOTAL", "CPU_ALLCPU_IRQSOFT",
               "CPU_ALLCPU_IRQHARD", "CPU_ALLCPU_STEAL", "CPU_ALLCPU_GUEST",
               "CPU_ALLCPU_GUESTNICE">>)

pcp_def_percpu_metrics ==
  AddMetrics(<<"CPU_PERCPU_USER", "CPU_PERCPU_NICE", "CPU_PERCPU_SYS",
               "CPU_PERCPU_IDLE", "CPU_PERCPU_WAITTOTAL",
               "CPU_PERCPU_IRQTOTAL", "CPU_PERCPU_IRQSOFT",
               "CPU_PERCPU_IRQHARD", "CPU_PERCPU_STEAL", "CPU_PERCPU_GUEST",
               "CPU_PERCPU_GUESTNICE">>)

\* A change of pcp_def_percpu_instance: the instance number is the position
\* of the CPU in the bitmap.
pcp_def_percpu_instance_numbered_by_position(cpu) ==
  << AddInstance("CPU_PERCPU_USER", "cpu" \o ToString(cpu), cpu + 1) >>

pcp_def_percpu_instance(cpu) ==
  << AddInstance("CPU_PERCPU_USER", "cpu" \o ToString(cpu), cpu) >>

pcp_def_global_softnet_metrics ==
  AddMetrics(<<"SOFTNET_ALLCPU_PROCESSED", "SOFTNET_ALLCPU_DROPPED",
               "SOFTNET_ALLCPU_TIMESQUEEZE", "SOFTNET_ALLCPU_RECEIVEDRPS",
               "SOFTNET_ALLCPU_FLOWLIMIT", "SOFTNET_ALLCPU_BACKLOGLENGTH">>)

pcp_def_percpu_softnet_metrics ==
  AddMetrics(<<"SOFTNET_PERCPU_PROCESSED", "SOFTNET_PERCPU_DROPPED",
               "SOFTNET_PERCPU_TIMESQUEEZE", "SOFTNET_PERCPU_RECEIVEDRPS",
               "SOFTNET_PERCPU_FLOWLIMIT", "SOFTNET_PERCPU_BACKLOGLENGTH">>)

pcp_def_pwr_cpufreq_metrics == AddMetrics(<<"POWER_PERCPU_CLOCK">>)

\* pcp_def_cpu_metrics(a) for a->id = a, a->nr_ini = nr_ini, the selected
\* bits bits of a->bitmap (of b_size MaxCpu) and a->item_list = items.
pcp_def_cpu_metrics(a, nr_ini, bits, items) ==
  LET last == Max({-1} \cup {i \in 0..MaxCpu : i < nr_ini})
      cpus == {i \in 1..last : i \in bits}
      At(i) ==
        IF i \notin bits THEN << >>
        ELSE IF i = 0
          THEN CASE a = "A_CPU" -> pcp_def_global_cpu_metrics
                 [] a = "A_NET_SOFT" -> pcp_def_global_softnet_metrics
                 [] OTHER -> << >>
        ELSE IF a = "A_IRQ"
          THEN pcp_def_percpu_intr_metrics
                 \o pcp_def_percpu_intr_instances(items, i - 1)
        ELSE IF \A j \in cpus : i <= j
          THEN pcp_def_percpu_instance(i - 1)
                 \o CASE a = "A_CPU" -> pcp_def_percpu_metrics
                      [] a = "A_PWR_CPU" -> pcp_def_pwr_cpufreq_metrics
                      [] a = "A_NET_SOFT" -> pcp_def_percpu_softnet_metrics
                      [] OTHER -> << >>
        ELSE << >>
      upto[i \in -1..last] == IF i = -1 THEN << >> ELSE upto[i - 1] \o At(i)
  IN upto[last]

pcp_def_pcsw_metrics ==
  AddMetrics(<<"PCSW_CONTEXT_SWITCH", "PCSW_FORK_SYSCALLS">>)

\* pcp_def_irq_metrics(a): "sum" has a metric of its own; the first other
\* interrupt adds the per-interrupt metric, and each one an instance.
pcp_def_irq_metrics(bits, items) ==
  LET others == SelectSeq(items, LAMBDA n : n # "sum")
      pos(k) == Len(SelectSeq(SubSeq(items, 1, k), LAMBDA n : n # "sum"))
      At(k) ==
        IF items[k] = "sum" THEN AddMetrics(<<"IRQ_ALLIRQ_TOTAL">>)
        ELSE (IF pos(k) = 1 THEN AddMetrics(<<"IRQ_PERIRQ_TOTAL">>)
                            ELSE << >>)
             \o << AddInstance("IRQ_PERIRQ_TOTAL", items[k], pos(k) - 1) >>
      upto[k \in 0..Len(items)] ==
        IF k = 0 THEN << >> ELSE upto[k - 1] \o At(k)
  IN IF 0 \notin bits THEN << >> ELSE upto[Len(items)]

\* A change of pcp_def_queue_metrics: a fourth instance, for the load
\* average over the last ten minutes.
pcp_def_queue_metrics_ten_minutes ==
  << AddToIndom(PMI_INDOM(60, 2), "1 minute", 1),
     AddToIndom(PMI_INDOM(60, 2), "5 minute", 5),
     AddToIndom(PMI_INDOM(60, 2), "10 minute", 10),
     AddToIndom(PMI_INDOM(60, 2), "15 minute", 15) >>
  \o AddMetrics(<<"KQUEUE_RUNNABLE", "KQUEUE_PROCESSES", "KQUEUE_BLOCKED",
                  "KQUEUE_LOADAVG">>)

pcp_def_queue_metrics ==
  << AddToIndom(PMI_INDOM(60, 2), "1 minute", 1),
     AddToIndom(PMI_INDOM(60, 2), "5 minute", 5),
     AddToIndom(PMI_INDOM(60, 2), "15 minute", 15) >>
  \o AddMetrics(<<"KQUEUE_RUNNABLE", "KQUEUE_PROCESSES", "KQUEUE_BLOCKED",
                  "KQUEUE_LOADAVG">>)

\* A change of pcp_def_net_nfs_metrics: a fifth kind of request, setattr.
pcp_def_net_nfs_metrics_with_setattr ==
  << AddToIndom(PMI_INDOM(60, 7), "getattr", ENUM.NFS_REQUEST_GETATTR),
     AddToIndom(PMI_INDOM(60, 7), "setattr", 5),
     AddToIndom(PMI_INDOM(60, 7), "read", ENUM.NFS_REQUEST_READ),
     AddToIndom(PMI_INDOM(60, 7), "write", ENUM.NFS_REQUEST_WRITE),
     AddToIndom(PMI_INDOM(60, 7), "access", ENUM.NFS_REQUEST_ACCESS) >>
  \o AddMetrics(<<"NFSCLIENT_RPCCCNT", "NFSCLIENT_RPCRETRANS",
                  "NFSCLIENT_REQUESTS">>)

pcp_def_net_nfs_metrics ==
  << AddToIndom(PMI_INDOM(60, 7), "getattr", ENUM.NFS_REQUEST_GETATTR),
     AddToIndom(PMI_INDOM(60, 7), "read", ENUM.NFS_REQUEST_READ),
     AddToIndom(PMI_INDOM(60, 7), "write", ENUM.NFS_REQUEST_WRITE),
     AddToIndom(PMI_INDOM(60, 7), "access", ENUM.NFS_REQUEST_ACCESS) >>
  \o AddMetrics(<<"NFSCLIENT_RPCCCNT", "NFSCLIENT_RPCRETRANS",
                  "NFSCLIENT_REQUESTS">>)

pcp_def_net_nfsd_metrics ==
  << AddToIndom(PMI_INDOM(60, 7), "getattr", ENUM.NFS_REQUEST_GETATTR),
     AddToIndom(PMI_INDOM(60, 7), "read", ENUM.NFS_REQUEST_READ),
     AddToIndom(PMI_INDOM(60, 7), "write", ENUM.NFS_REQUEST_WRITE),
     AddToIndom(PMI_INDOM(60, 7), "access", ENUM.NFS_REQUEST_ACCESS) >>
  \o AddMetrics(<<"NFSSERVER_RPCCNT", "NFSSERVER_RPCBADCLNT",
                  "NFSSERVER_NETCNT", "NFSSERVER_NETUDPCNT",
                  "NFSSERVER_NETTCPCNT", "NFSSERVER_RCHITS",
                  "NFSSERVER_RCMISSES", "NFSSERVER_REQUESTS">>)

pcp_def_psi_instances ==
  << AddInstance("PSI_CPU_SOMEAVG", "10 second", 10),
     AddInstance("PSI_CPU_SOMEAVG", "1 minute", 60),
     AddInstance("PSI_CPU_SOMEAVG", "5 minute", 300) >>

pcp_def_psicpu_metrics ==
  AddMetrics(<<"PSI_CPU_SOMETOTAL", "PSI_CPU_SOMEAVG">>)

pcp_def_psiio_metrics ==
  AddMetrics(<<"PSI_IO_SOMETOTAL", "PSI_IO_SOMEAVG", "PSI_IO_FULLTOTAL",
               "PSI_IO_FULLAVG">>)

pcp_def_psimem_metrics ==
  AddMetrics(<<"PSI_MEM_SOMETOTAL", "PSI_MEM_SOMEAVG", "PSI_MEM_FULLTOTAL",
               "PSI_MEM_FULLAVG">>)

\* pcp_def_psi_metrics(a); flags holds the routines whose static setup is 1.
pcp_def_psi_metrics(a, flags) ==
  (IF "pcp_def_psi_metrics" \in flags THEN << >> ELSE pcp_def_psi_instances)
  \o CASE a = "A_PSI_CPU" -> pcp_def_psicpu_metrics
       [] a = "A_PSI_IO" -> pcp_def_psiio_metrics
       [] a = "A_PSI_MEM" -> pcp_def_psimem_metrics
       [] OTHER -> << >>

(***************************************************************************)
(* The writers (pcp_stats.c).                                              *)
(*                                                                         *)
(* A writer is given the activity, the slot of the current sample and the  *)
(* raw records; it yields the activity as it leaves it and the calls it    *)
(* makes on the archive, in order.                                         *)
(***************************************************************************)
NULL == "(null)"

\* The field f of record i of a->buf[slot]; records start out zeroed.
Field(b, a, slot, i, f) ==
  IF <<a, slot, i, f>> \in DOMAIN b THEN b[<<a, slot, i, f>>] ELSE 0

CpuFields ==
  << "cpu_user", "cpu_nice", "cpu_sys", "cpu_idle", "cpu_iowait",
     "cpu_steal", "cpu_hardirq", "cpu_softirq", "cpu_guest",
     "cpu_guest_nice" >>

\* get_per_cpu_interval(scc, scp): the ticks between the two records of
\* CPU i.
get_per_cpu_interval(b, a, curr_, i) ==
  LET d[k \in 0..Len(CpuFields)] ==
        IF k = 0 THEN 0
        ELSE Mask(d[k - 1] + Field(b, a, curr_, i, CpuFields[k])
                    + Pow2(U64_BITS) - Field(b, a, 1 - curr_, i, CpuFields[k]),
                  U64_BITS)
  IN d[Len(CpuFields)]

\* get_global_cpu_statistics(a, !curr, curr, flags, offline_cpu_bitmap):
\* CPU "all" is the sum of the CPUs that are online, and so is its
\* interval; the offline CPUs are those of off.
get_global_cpu_statistics(b, a, curr_, nr_ini, off) ==
  LET last == Max({0} \cup {i \in 0..MaxCpu : i < nr_ini})
      sum[i \in 0..last] ==
        IF i = 0 THEN 0
        ELSE Mask(sum[i - 1] + (IF i \in off THEN 0
                                ELSE get_per_cpu_interval(b, a, curr_, i)),
                  U64_BITS)
  IN [deltot_jiffies |-> sum[last], offline_cpu_bitmap |-> off]

\* get_global_soft_statistics(a, !curr, curr, flags, offline_cpu_bitmap):
\* the offline CPUs are those of off.
get_global_soft_statistics(off) == off

\* get_global_int_statistics(a, !curr, curr, flags, masked_cpu_bitmap): the
\* CPUs that are offline or not selected.
get_global_int_statistics(bits, off) ==
  {c \in 0..MaxCpu : c \notin bits} \cup off

\* A change of deltot_jiffies_all: the interval of CPU "all" is always
\* computed from the two records of CPU "all".
deltot_jiffies_all_from_record(b, curr_, nr_ini, bits, off) ==
  IF nr_ini >= 1 /\ 0 \in bits
    THEN << [e |-> "deltot_jiffies", field |-> "get_per_cpu_interval",
             val |-> Max({1, get_per_cpu_interval(b, "A_CPU", curr_, 0)})] >>
    ELSE << >>

\* What pcp_print_cpu_stats holds in deltot_jiffies when it is done with
\* CPU "all", and the function the value came from.
deltot_jiffies_all(b, curr_, nr_ini, bits, off) ==
  LET glob == get_global_cpu_statistics(b, "A_CPU", curr_, nr_ini, off)
      visited == nr_ini >= 1 /\ 0 \in bits
                   /\ (nr_ini > 1 => 0 \notin glob.offline_cpu_bitmap)
  IN IF nr_ini > 1
       THEN << [e |-> "deltot_jiffies",
                field |-> "get_global_cpu_statistics",
                val |-> IF visited /\ glob.deltot_jiffies = 0
                          THEN 1 ELSE glob.deltot_jiffies] >>
     ELSE IF visited
       THEN << [e |-> "deltot_jiffies", field |-> "get_per_cpu_interval",
                val |-> Max({1, get_per_cpu_interval(b, "A_CPU", curr_, 0)})] >>
       ELSE << >>

\* A change of the tickless branch of pcp_print_cpu_stats: idle is put as
\* 0 like the other buckets.
pcp_print_cpu_tickless_idle_zero(cpuno) ==
  [k \in 1..10 |->
     Put("kernel.percpu.cpu."
           \o << "user", "nice", "sys", "iowait", "steal", "hardirq",
                 "softirq", "guest", "guest_nice", "idle" >>[k], cpuno, 0)]

\* The values pcp_print_cpu_stats puts for a tickless CPU.
pcp_print_cpu_tickless(cpuno) ==
  [k \in 1..9 |->
     Put("kernel.percpu.cpu."
           \o << "user", "nice", "sys", "iowait", "steal", "hardirq",
                 "softirq", "guest", "guest_nice" >>[k], cpuno, 0)]
  \o << Put("kernel.percpu.cpu.idle", cpuno, 100) >>

\* A change of pcp_print_cpu_stats: the writer adds the instance of the
\* first CPU to the per-CPU instance domain.
pcp_print_cpu_stats_adding_instance(A, curr_, b, bits, off) ==
  [act |-> A, calls |-> << AddToIndom(PMI_INDOM(60, 0), "cpu0", 0) >>,
   trace |-> << >>]

pcp_print_cpu_stats(A, curr_, b, bits, off) ==
  LET a == "A_CPU"
      nr_ini == Max({A.nr_ini, A.nr[curr_ + 1]})
      glob == IF nr_ini > 1
                THEN get_global_cpu_statistics(b, a, curr_, nr_ini, off)
                ELSE [deltot_jiffies |-> 1, offline_cpu_bitmap |-> {}]
      last == Max({-1} \cup {i \in 0..MaxCpu : i < nr_ini})
      F(i, f) == Field(b, a, curr_, i, f)
      Sub(x, y) == Mask(x + Pow2(U64_BITS) - y, U64_BITS)
      N(i, n) == IF i = 0 THEN "kernel.all.cpu." \o n
                          ELSE "kernel.percpu.cpu." \o n
      Values(i, str) ==
        << Put(N(i, "user"), str,
               Sub(F(i, "cpu_user"), F(i, "cpu_guest"))),
           Put(N(i, "nice"), str,
               Sub(F(i, "cpu_nice"), F(i, "cpu_guest_nice"))),
           Put(N(i, "sys"), str, F(i, "cpu_sys")),
           Put(N(i, "iowait"), str, F(i, "cpu_iowait")),
           Put(N(i, "steal"), str, F(i, "cpu_steal")),
           Put(N(i, "irq.total"), str,
               Mask(F(i, "cpu_hardirq") + F(i, "cpu_softirq"), U64_BITS)),
           Put(N(i, "irq.hard"), str, F(i, "cpu_hardirq")),
           Put(N(i, "irq.soft"), str, F(i, "cpu_softirq")),
           Put(N(i, "guest"), str, F(i, "cpu_guest")),
           Put(N(i, "guest_nice"), str,
               F(i, "cpu_guest_nice")),
           Put(N(i, "idle"), str, F(i, "cpu_idle")) >>
      At(i) ==
        IF i \notin bits \/ i \in glob.offline_cpu_bitmap THEN << >>
        ELSE IF i = 0 THEN Values(0, NULL)
        ELSE IF get_per_cpu_interval(b, a, curr_, i) = 0
          THEN pcp_print_cpu_tickless("cpu" \o ToString(i - 1))
          ELSE Values(i, "cpu" \o ToString(i - 1))
      upto[i \in -1..last] == IF i = -1 THEN << >> ELSE upto[i - 1] \o At(i)
  IN [act |-> [A EXCEPT !.nr_ini = nr_ini], calls |-> upto[last],
      trace |-> deltot_jiffies_all(b, curr_, nr_ini, bits, off)]

pcp_print_pcsw_stats(A, curr_, b) ==
  [act |-> A, trace |-> << >>,
   calls |->
     << Put("kernel.all.pswitch", NULL,
            Field(b, "A_PCSW", curr_, 0, "context_switch")),
        Put("kernel.all.sysfork", NULL,
            Field(b, "A_PCSW", curr_, 0, "processes")) >>]

\* Record c * nr2 + i holds interrupt i of CPU c; the name of interrupt i
\* is read in the record of CPU "all".
pcp_print_irq_stats(A, curr_, b, items, bits, off) ==
  LET a == "A_IRQ"
      nr_ini == Max({A.nr_ini, A.nr[curr_ + 1]})
      masked == get_global_int_statistics(bits, off)
      lastc == Max({-1} \cup {c \in 0..MaxCpu : c < A.nr[curr_ + 1]})
      irq_name(i) == Field(b, a, curr_, i, "irq_name")
      irq_nr(c, i) == Field(b, a, curr_, c * A.nr2 + i, "irq_nr")
      At(i, c) ==
        IF c \in masked THEN << >>
        ELSE IF c = 0
          THEN IF i = 0
                 THEN << Put("kernel.all.intr", NULL, irq_nr(c, i)) >>
                 ELSE << Put("kernel.all.interrupts.total", irq_name(i),
                             irq_nr(c, i)) >>
          ELSE << Put("kernel.percpu.interrupts",
                      irq_name(i) \o "::cpu" \o ToString(c - 1),
                      irq_nr(c, i)) >>
      cpus[i \in 0..(A.nr2 - 1), c \in -1..lastc] ==
        IF c = -1 THEN << >> ELSE cpus[i, c - 1] \o At(i, c)
      Irq(i) ==
        IF Len(items) # 0 /\ \A k \in DOMAIN items : items[k] # irq_name(i)
          THEN << >>
          ELSE cpus[i, lastc]
      upto[i \in -1..(A.nr2 - 1)] ==
        IF i = -1 THEN << >> ELSE upto[i - 1] \o Irq(i)
  IN [act |-> [A EXCEPT !.nr_ini = nr_ini], calls |-> upto[A.nr2 - 1],
      trace |-> << >>]

pcp_print_softnet_stats(A, curr_, b, bits, off) ==
  LET a == "A_NET_SOFT"
      nr_ini == Max({A.nr_ini, A.nr[curr_ + 1]})
      offline_cpu_bitmap == get_global_soft_statistics(off)
      last == Max({-1} \cup {i \in 0..MaxCpu : i < nr_ini})
      F(i, f) == Field(b, a, curr_, i, f)
      At(i) ==
        IF i \notin bits \/ i \in offline_cpu_bitmap \/ i = 0 THEN << >>
        ELSE LET cpuno == "cpu" \o ToString(i - 1) IN
          << Put("network.softnet.percpu.processed", cpuno,
                 F(i, "processed")),
             Put("network.softnet.percpu.dropped", cpuno, F(i, "dropped")),
             Put("network.softnet.percpu.time_squeeze", cpuno,
                 F(i, "time_squeeze")),
             Put("network.softnet.percpu.received_rps", cpuno,
                 F(i, "received_rps")),
             Put("network.softnet.percpu.flow_limit", cpuno,
                 F(i, "flow_limit")),
             Put("network.softnet.percpu.backlog_length", cpuno,
                 F(i, "backlog_len")) >>
      upto[i \in -1..last] == IF i = -1 THEN << >> ELSE upto[i - 1] \o At(i)
  IN [act |-> [A EXCEPT !.nr_ini = nr_ini], calls |-> upto[last],
      trace |-> << >>]

\* cpufreq is in hundredths of a MHz, and so is the value put.
pcp_print_pwr_cpufreq_stats(A, curr_, b, bits) ==
  LET last == Max({-1} \cup {i \in 0..MaxCpu : i < A.nr[curr_ + 1]})
      At(i) ==
        IF i \notin bits \/ i = 0 THEN << >>
        ELSE << Put("hinv.cpu.clock", "cpu" \o ToString(i - 1),
                    Field(b, "A_PWR_CPU", curr_, i, "cpufreq")) >>
      upto[i \in -1..last] == IF i = -1 THEN << >> ELSE upto[i - 1] \o At(i)
  IN [act |-> A, calls |-> upto[last], trace |-> << >>]

(***************************************************************************)
(* A session: the catalogs are defined, then samples are processed one at  *)
(* a time, written to an archive (export) or read from one (import).       *)
(***************************************************************************)
MaxIrq == 2

IrqNames == << "sum", "1", "2", "3" >>

ExportActs == {"A_CPU", "A_IRQ", "A_PCSW", "A_QUEUE", "A_PSI_CPU"}

PerCpuActs == {"A_CPU", "A_IRQ"}

ItemLists == { << >>, SubSeq(IrqNames, 1, MaxIrq) }

\* What the collector finds at a sample: n records per per-CPU activity,
\* counters that follow profile p, and the CPUs of off offline.
SampleProfiles ==
  { [n |-> 1, p |-> 1, off |-> {}],
    [n |-> MaxCpu, p |-> 2, off |-> {}],
    [n |-> MaxCpu + 1, p |-> 1, off |-> {}],
    [n |-> MaxCpu + 1, p |-> 2, off |-> {1}] }

CurStore ==
  [status |-> "ok", metrics |-> pmi_metrics, insts |-> pmi_insts,
   values |-> pmi_values]

\* The definition routine of each activity.
Definitions(a) ==
  CASE a \in {"A_CPU", "A_NET_SOFT", "A_PWR_CPU"} ->
         pcp_def_cpu_metrics(a, act[a].nr_ini, bitmap, item_list)
    [] a = "A_IRQ" ->
         pcp_def_irq_metrics(bitmap, item_list)
           \o pcp_def_cpu_metrics(a, act[a].nr_ini, bitmap, item_list)
    [] a = "A_PCSW" -> pcp_def_pcsw_metrics
    [] a = "A_QUEUE" -> pcp_def_queue_metrics
    [] a = "A_NET_NFS" -> pcp_def_net_nfs_metrics
    [] a = "A_NET_NFSD" -> pcp_def_net_nfsd_metrics
    [] OTHER -> pcp_def_psi_metrics(a, setup)

\* The writer of each activity.
Writer(a) ==
  CASE a = "A_CPU" -> pcp_print_cpu_stats(act[a], curr, buf, bitmap, offline)
    [] a = "A_IRQ" ->
         pcp_print_irq_stats(act[a], curr, buf, item_list, bitmap, offline)
    [] a = "A_NET_SOFT" ->
         pcp_print_softnet_stats(act[a], curr, buf, bitmap, offline)
    [] a = "A_PWR_CPU" ->
         pcp_print_pwr_cpufreq_stats(act[a], curr, buf, bitmap)
    [] OTHER -> pcp_print_pcsw_stats(act[a], curr, buf)

\* define(catalog, metric_store): the store takes definitions once for each
\* catalog, and only until the catalogs are declared complete.
define(a, st, defined_, pc_) ==
  IF a \in defined_ \/ pc_ # "Uninitialized"
    THEN {[st EXCEPT !.status = "StoreUnavailable"]}
    ELSE Run(a, Definitions(a), {st})

\* A change of CanSample: samples are taken in a session whose catalogs are
\* still being defined.
CanSampleWhileDefining(pc_) == pc_ \in {"Uninitialized", "CatalogsDefined"}

\* Whether the session processes samples.
CanSample(pc_) == pc_ = "CatalogsDefined"

Init ==
  /\ pc = "Uninitialized" /\ curr = 0
  /\ offline = {} /\ buf = EmptyBuf
  /\ pmi_metrics = << >> /\ pmi_insts = << >> /\ pmi_values = {}
  /\ setup = {} /\ defined = {} /\ nsamples = 0 /\ nimports = 0
  /\ seen = [a \in Activities |-> -1]
  /\ call = NoCall
  /\ \/ /\ mode = "export"
        /\ bitmap \in SUBSET (0..MaxCpu)
        /\ item_list \in ItemLists
        /\ \E n0 \in {1, MaxCpu + 1} :
             act = [a \in Activities |->
                      IF a \in PerCpuActs
                        THEN [NewActivity(n0, n0) EXCEPT
                                !.nr2 = IF a = "A_IRQ" THEN MaxIrq ELSE 1]
                        ELSE NewActivity(1, 1)]
     \/ /\ mode = "import"
        /\ bitmap = {} /\ item_list = << >>
        /\ \E alloc \in 0..1 :
             act = [a \in Activities |->
                      NewActivity(alloc, IF alloc = 0 THEN -1 ELSE alloc)]

AfterDefine(a, st) ==
  /\ pmi_metrics' = st.metrics
  /\ pmi_insts' = st.insts
  /\ pc' = CASE st.status = "PANIC" -> "Panicked"
             [] st.status = "crash" -> "Crashed"
             [] st.status = "StoreUnavailable" -> "Aborted"
             [] OTHER -> pc
  /\ defined' = IF st.status = "ok" THEN defined \cup {a} ELSE defined
  /\ setup' = IF a \in {"A_PSI_CPU", "A_PSI_IO", "A_PSI_MEM"}
                   /\ st.status # "StoreUnavailable"
                THEN setup \cup {"pcp_def_psi_metrics"} ELSE setup
  /\ call' = [NoCall EXCEPT !.op = "define", !.a = a, !.result = st.status]

DefineMetrics ==
  /\ mode = "export"
  /\ pc \in {"Uninitialized", "CatalogsDefined"}
  /\ \E a \in ExportActs :
       \E st \in define(a, CurStore, defined, pc) : AfterDefine(a, st)
  /\ UNCHANGED <<mode, curr, act, bitmap, item_list, offline, buf,
                 pmi_values, nsamples, nimports, seen>>

EndDefinitions ==
  /\ pc = "Uninitialized"
  /\ pc' = "CatalogsDefined"
  /\ call' = [NoCall EXCEPT !.op = "defined"]
  /\ UNCHANGED <<mode, curr, act, bitmap, item_list, offline, buf,
                 pmi_metrics, pmi_insts, pmi_values, setup, defined,
                 nsamples, nimports, seen>>

\* The counters of profile p for record i.
Counter(f, p, i) ==
  CASE f = "cpu_user" -> 20 * p + i
    [] f = "cpu_nice" -> 12 * p + i
    [] f = "cpu_idle" -> 50 * p + i
    [] OTHER -> p + i

\* The records of sample slot slot once the collector has stored a sample.
SampleBuf(b, slot, sp) ==
  LET cpu == {<<"A_CPU", slot, i, CpuFields[k]>> :
                i \in 0..(sp.n - 1), k \in DOMAIN CpuFields}
      irq == {<<"A_IRQ", slot, r, f>> :
                r \in 0..(sp.n * MaxIrq - 1), f \in {"irq_name", "irq_nr"}}
      pcsw == {<<"A_PCSW", slot, 0, f>> : f \in {"context_switch", "processes"}}
      soft == {<<"A_NET_SOFT", slot, i, f>> :
                 i \in 0..(sp.n - 1),
                 f \in {"processed", "dropped", "time_squeeze",
                        "received_rps", "flow_limit", "backlog_len"}}
      freq == {<<"A_PWR_CPU", slot, i, "cpufreq">> : i \in 0..(sp.n - 1)}
  IN [k \in DOMAIN b \cup cpu \cup irq \cup pcsw \cup soft \cup freq |->
        IF k \in cpu THEN Counter(k[4], sp.p, k[3])
        ELSE IF k \in irq
          THEN IF k[4] = "irq_name" THEN IrqNames[(k[3] % MaxIrq) + 1]
                                    ELSE sp.p + k[3]
        ELSE IF k \in pcsw THEN 7 * sp.p
        ELSE IF k \in soft THEN 3 * sp.p + k[3]
        ELSE IF k \in freq THEN 100 * sp.p + k[3]
        ELSE b[k]]

\* The driver moves to the next sample.  On export the collector has stored
\* the sample in the other slot, with room for its records, and the
\* archive record of the sample before it has been written out.
NextSample ==
  /\ CanSample(pc)
  /\ nsamples < MaxSamples
  /\ nsamples' = nsamples + 1
  /\ curr' = IF nsamples = 0 THEN curr ELSE 1 - curr
  /\ IF mode = "export"
       THEN \E sp \in SampleProfiles :
              /\ act' = [a \in Activities |->
                           IF a \in PerCpuActs
                             THEN [act[a] EXCEPT
                                     !.nr[curr' + 1] = sp.n,
                                     !.nr_allocated = Max({@, sp.n})]
                             ELSE [act[a] EXCEPT !.nr[curr' + 1] = 1]]
              /\ buf' = SampleBuf(buf, curr', sp)
              /\ offline' = sp.off
       ELSE UNCHANGED <<act, buf, offline>>
  /\ pmi_values' = {}
  /\ call' = [NoCall EXCEPT !.op = "sample"]
  /\ UNCHANGED <<pc, mode, bitmap, item_list, pmi_metrics, pmi_insts, setup,
                 defined, nimports, seen>>

\* The writer of a defined activity writes the current sample.
PrintStats ==
  /\ CanSample(pc)
  /\ mode = "export"
  /\ nsamples >= 1
  /\ \E a \in defined :
       LET w == Writer(a) IN
       \E st \in Run(a, w.calls, {CurStore}) :
         /\ act' = [act EXCEPT ![a] = w.act]
         /\ pmi_metrics' = st.metrics
         /\ pmi_insts' = st.insts
         /\ pmi_values' = st.values
         /\ call' = [NoCall EXCEPT !.op = "print", !.a = a,
                                   !.result = st.status]
  /\ UNCHANGED <<pc, mode, curr, bitmap, item_list, offline, buf, setup,
                 defined, nsamples, nimports, seen>>

\* The value sets of the archives read in a session.
SessionValueSets ==
  { [pmid |-> PMIDS.PMID_CPU_ALLCPU_USER, numval |-> n,
     vlist |-> [k \in 1..n |-> [inst |-> k - 1, value |-> 29]]] :
      n \in 0..MaxNumval }
  \cup
  { [pmid |-> p, numval |-> 1, vlist |-> << [inst |-> 0, value |-> 29] >>] :
      p \in {PMIDS.PMID_PCSW_CONTEXT_SWITCH, PMIDS.PMID_SWAP_PAGESIN,
             PMI_ID(60, 99, 0)} }
  \cup
  { [pmid |-> PMIDS.PMID_PCSW_CONTEXT_SWITCH, numval |-> -1,
     vlist |-> << >>] }

\* A value set of the current archive record is handed to pcp_read_stats.
ReadStats ==
  /\ CanSample(pc)
  /\ mode = "import"
  /\ nsamples >= 1
  /\ nimports < MaxImports
  /\ nimports' = nimports + 1
  /\ \E values \in SessionValueSets :
       \E s \in pcp_read_stats(values, curr, NewImport(act, buf, seen)) :
         AfterImport(values, s)
  /\ UNCHANGED <<mode, curr, bitmap, item_list, offline, pmi_metrics,
                 pmi_insts, pmi_values, setup, defined, nsamples>>

Close ==
  /\ pc = "CatalogsDefined"
  /\ pc' = "Closed"
  /\ call' = [NoCall EXCEPT !.op = "close"]
  /\ UNCHANGED <<mode, curr, act, bitmap, item_list, offline, buf,
                 pmi_metrics, pmi_insts, pmi_values, setup, defined,
                 nsamples, nimports, seen>>

Next ==
  \/ DefineMetrics
  \/ EndDefinitions
  \/ NextSample
  \/ PrintStats
  \/ ReadStats
  \/ Close

Spec == Init /\ [][Next]_vars

(***************************************************************************)
(* One run of a writer that goes over the CPUs, for every selection of     *)
(* CPUs, every set of offline CPUs, every count of CPUs at definition time *)
(* and in the sample, and current and previous counters that differ or     *)
(* not.                                                                    *)
(***************************************************************************)
PrintActs == {"A_CPU", "A_NET_SOFT", "A_PWR_CPU", "A_IRQ"}

InitPrint ==
  /\ pc = "CatalogsDefined" /\ mode = "export" /\ curr = 0
  /\ pmi_metrics = << >> /\ pmi_insts = << >> /\ pmi_values = {}
  /\ setup = {} /\ defined = PrintActs /\ nsamples = 2 /\ nimports = 0
  /\ seen = [a \in Activities |-> -1]
  /\ call = NoCall
  /\ bitmap \in SUBSET (0..MaxCpu)
  /\ offline \in SUBSET (1..MaxCpu)
  /\ item_list \in ItemLists
  /\ \E d \in 1..(MaxCpu + 1), n \in 1..(MaxCpu + 2) :
       /\ act = [a \in Activities |->
                   IF a \in PrintActs
                     THEN [nr |-> <<n, n>>, nr_allocated |-> Max({d, n}),
                           nr_ini |-> d, nr2 |-> IF a = "A_IRQ" THEN MaxIrq
                                                                ELSE 1]
                     ELSE NewActivity(1, 1)]
       /\ \E p \in 1..2, q \in 1..2 :
            buf = SampleBuf(SampleBuf(EmptyBuf, 1, [n |-> n, p |-> q]),
                            0, [n |-> n, p |-> p])

PrintOnce ==
  /\ call.op = "none"
  /\ \E a \in PrintActs :
       LET w == Writer(a) IN
       \E st \in Run(a, w.calls, {CurStore}) :
         /\ act' = [act EXCEPT ![a] = w.act]
         /\ pmi_values' = st.values
         /\ call' = [NoCall EXCEPT !.op = "print", !.a = a,
                                   !.result = st.status,
                                   !.events = w.trace]
  /\ UNCHANGED <<pc, mode, curr, bitmap, item_list, offline, buf,
                 pmi_metrics, pmi_insts, setup, defined, nsamples, nimports,
                 seen>>

SpecPrint == InitPrint /\ [][PrintOnce]_vars


(***************************************************************************)
(* The definition phase alone: the routines of the activities that have    *)
(* instance domains run one after the other, for every selection of CPUs,  *)
(* every count of CPUs and a list of interrupts or none.                   *)
(***************************************************************************)
DefActs ==
  {"A_CPU", "A_NET_SOFT", "A_PWR_CPU", "A_IRQ", "A_QUEUE", "A_NET_NFS",
   "A_NET_NFSD", "A_PSI_CPU", "A_PSI_IO", "A_PSI_MEM"}

InitDef ==
  /\ pc = "Uninitialized" /\ mode = "export" /\ curr = 0
  /\ offline = {} /\ buf = EmptyBuf
  /\ pmi_metrics = << >> /\ pmi_insts = << >> /\ pmi_values = {}
  /\ setup = {} /\ defined = {} /\ nsamples = 0 /\ nimports = 0
  /\ seen = [a \in Activities |-> -1]
  /\ call = NoCall
  /\ bitmap \in SUBSET (0..MaxCpu)
  /\ item_list \in ItemLists
  /\ \E d \in 1..(MaxCpu + 1) :
       act = [a \in Activities |->
                IF a \in PrintActs
                  THEN [NewActivity(d, d) EXCEPT
                          !.nr2 = IF a = "A_IRQ" THEN MaxIrq ELSE 1]
                  ELSE NewActivity(1, 1)]

DefineOnce ==
  /\ pc = "Uninitialized"
  /\ \E a \in DefActs :
       \E st \in define(a, CurStore, defined, pc) : AfterDefine(a, st)
  /\ UNCHANGED <<mode, curr, act, bitmap, item_list, offline, buf,
                 pmi_values, nsamples, nimports, seen>>

SpecDef == InitDef /\ [][DefineOnce]_vars

(***************************************************************************)
(* A definition phase, or one call of pcp_read_stats: the two places where *)
(* the numbers of an instance domain are used.                             *)
(***************************************************************************)
SpecDefRead ==
  (InitDef \/ InitRead)
    /\ [][DefineOnce \/ (mode = "import" /\ PcpReadStats)]_vars

(***************************************************************************)
(* One use of PMI_ID, for fields of an identifier that are small, that are *)
(* the largest of their width, and that are up to MaxOver past it.         *)
(***************************************************************************)
PmiId ==
  /\ call.op = "none"
  /\ LET In(w) == (0..MaxOver)
                    \cup ((Pow2(w) - 1 - MaxOver)..(Pow2(w) - 1 + MaxOver))
     IN \E domain \in In(9), cluster \in In(12), item \in In(10) :
          call' = [NoCall EXCEPT !.op = "PMI_ID", !.result = "ok",
                                 !.pmid = PMI_ID(domain, cluster, item),
                                 !.vlist = <<domain, cluster, item>>]
  /\ UNCHANGED <<pc, mode, curr, act, bitmap, item_list, offline, buf,
                 pmi_metrics, pmi_insts, pmi_values, setup, defined,
                 nsamples, nimports, seen>>

SpecId == InitAct /\ [][PmiId]_vars
(***************************************************************************)
(* Properties.                                                             *)
(***************************************************************************)

\* C1: for every catalog and every local index at or past the catalog's
\* count, act_add_metric and act_add_instance stop with PANIC and hand no
\* name or descriptor to the metric store.
C1_GuardFailsLoudly ==
  (/\ call.op \in {"act_add_metric", "act_add_instance"}
   /\ call.metric >= metrics[call.a].count)
    => (/\ call.result = "PANIC"
        /\ pmi_metrics = << >>
        /\ pmi_insts = << >>)

\* C2: for every catalog and every local index below the catalog's count,
\* act_add_metric does not fail and registers exactly the name and the
\* descriptor stored at that index.
C2_GuardPassesAndRegisters ==
  (/\ call.op = "act_add_metric"
   /\ call.metric < metrics[call.a].count)
    => (/\ call.result = "ok"
        /\ pmi_metrics =
             << [name |-> metrics[call.a].names[call.metric + 1],
                 pmid |-> metrics[call.a].descs[call.metric + 1].pmid,
                 type |-> metrics[call.a].descs[call.metric + 1].type,
                 indom |-> metrics[call.a].descs[call.metric + 1].indom,
                 sem |-> metrics[call.a].descs[call.metric + 1].sem] >>)

\* C3: a value set with at least one value whose identifier is
\* PMI_ID(60, 0, 20) is handed by pcp_read_stats to pcp_read_cpu_stats, the
\* reader of the CPU group, and no case label of another group's reader
\* carries that identifier.
C3_CpuUserRoutedToCpuReader ==
  (/\ call.op = "pcp_read_stats"
   /\ call.pmid = PMI_ID(60, 0, 20)
   /\ call.numval >= 1)
    => (/\ call.reader = "pcp_read_cpu_stats"
        /\ call.a = "A_CPU"
        /\ \A k \in DOMAIN pcp_read_stats_switch :
             PMI_ID(60, 0, 20) \in Pmids(pcp_read_stats_switch[k].pmids)
               => pcp_read_stats_switch[k].reader = "pcp_read_cpu_stats")

C3_Witness ==
  /\ call.op = "pcp_read_stats"
  /\ call.pmid = PMI_ID(60, 0, 20)
  /\ call.numval >= 1
  /\ call.reader = "pcp_read_cpu_stats"

\* C4: for every descriptor of every group's catalog, a value set with at
\* least one value that carries the descriptor's identifier is handed to the
\* reader of the group owning the descriptor.
C4_DispatcherCoversEveryCatalog ==
  (/\ call.op = "pcp_read_stats"
   /\ call.numval >= 1)
    => \A g \in Groups :
         call.pmid \in {metrics[g].descs[k].pmid : k \in DOMAIN metrics[g].descs}
           => call.a = g

\* C5: a value set whose identifier belongs to no catalog changes nothing:
\* pcp_read_stats returns normally and every record, count and header field
\* stays as it was.
C5_UnknownIdentifierIgnored ==
  [][(/\ call'.op = "pcp_read_stats"
      /\ call'.pmid \notin CatalogPmids)
       => (/\ call'.result = "ok"
           /\ act' = act
           /\ buf' = buf
           /\ pc' = pc)]_vars

C5_Witness ==
  /\ call.op = "pcp_read_stats"
  /\ call.pmid \notin CatalogPmids
  /\ call.numval >= 1
  /\ call.result = "ok"
  /\ buf = EmptyBuf

\* C6: in every session, a sample is taken, a writer is run and a value set
\* is handed to pcp_read_stats only once the catalogs have been declared
\* defined, and a writer is run only for an activity whose definition
\* routine has returned.
C6_NoSampleBeforeCatalogsDefined ==
  [][call'.op \in {"sample", "print", "pcp_read_stats"}
       => (/\ pc = "CatalogsDefined"
           /\ call'.op = "print" => call'.a \in defined)]_vars

C6_Witness ==
  /\ pc = "CatalogsDefined"
  /\ nsamples >= 1
  /\ call.op = "print"
  /\ pmi_values # {}

C8_EnsureBeforeWrite ==
  (/\ call.op = "pcp_read_stats"
   /\ call.a \notin Headers)
    => \A k \in DOMAIN call.events :
         call.events[k].e = "write"
           => \E j \in 1..(k - 1) : call.events[j].e = "ensure"


\* C9: for every activity and both sample slots, nr[slot] is at most
\* nr_allocated in every state of a session: after every call of
\* pcp_reallocate_buffers and wherever a reader or a writer indexes the
\* records.
C9_ObservedWithinAllocated ==
  \A a \in Activities :
    \A slot \in 1..2 : act[a].nr[slot] <= act[a].nr_allocated

C9_Witness ==
  /\ call.op = "pcp_read_stats"
  /\ call.a = "A_CPU"
  /\ call.numval >= 2
  /\ call.events = << Ensure >>
  /\ act["A_CPU"].nr[curr + 1] = call.numval
  /\ act["A_CPU"].nr_allocated >= call.numval

EmittedFor(vals, i) ==
  \E v \in vals :
    \/ i = 0 /\ v.inst = NULL
    \/ i >= 1 /\ v.inst = "cpu" \o ToString(i - 1)
    \/ i >= 1 /\ \E k \in DOMAIN IrqNames :
                   v.inst = IrqNames[k] \o "::cpu" \o ToString(i - 1)

\* C11: when the sample holds more records than the count the instances
\* were defined for (nr[curr] > nr_ini), the CPU, softnet and interrupts
\* writers put no value for a CPU whose index is at or past that count.
C11_WritersClampToDefinedCount ==
  [][(/\ call'.op = "print"
      /\ call'.a \in {"A_CPU", "A_NET_SOFT", "A_IRQ"}
      /\ act[call'.a].nr[curr + 1] > act[call'.a].nr_ini)
       => \A i \in 1..(MaxCpu + 1) :
            i >= act[call'.a].nr_ini => ~EmittedFor(pmi_values', i)]_vars

\* C12: for every index a writer that filters CPUs goes over (CPU "all"
\* counted for the CPU writer only, the other two having no value for it),
\* a value is put for the index exactly when the index is selected in the
\* bitmap and not offline in the current sample.
C12_EmitIffSelectedAndOnline ==
  [][(/\ call'.op = "print"
      /\ call'.a \in {"A_CPU", "A_NET_SOFT", "A_PWR_CPU"})
       => \A i \in (IF call'.a = "A_CPU" THEN 0 ELSE 1)..MaxCpu :
            i < (IF call'.a = "A_PWR_CPU"
                   THEN act[call'.a].nr[curr + 1]
                   ELSE Max({act[call'.a].nr_ini, act[call'.a].nr[curr + 1]}))
              => (EmittedFor(pmi_values', i)
                    <=> (i \in bitmap /\ i \notin offline))]_vars

\* The values put under a label.
PutFor(vals, label) ==
  {[name |-> v.name, val |-> v.val] : v \in {x \in vals : x.inst = label}}

\* C13: for every CPU the CPU writer puts values for and whose interval is
\* zero, the values put are 0 for user, nice, sys, iowait, steal, hardirq,
\* softirq, guest and guest_nice and 100 for idle, and nothing else,
\* whatever the counters of the CPU hold.
C13_TicklessSynthesis ==
  (call.op = "print" /\ call.a = "A_CPU")
    => \A i \in 1..MaxCpu :
         (/\ EmittedFor(pmi_values, i)
          /\ get_per_cpu_interval(buf, "A_CPU", curr, i) = 0)
           => PutFor(pmi_values, "cpu" \o ToString(i - 1)) =
                {[name |-> "kernel.percpu.cpu." \o n, val |-> 0] :
                   n \in {"user", "nice", "sys", "iowait", "steal", "hardirq",
                          "softirq", "guest", "guest_nice"}}
                \cup {[name |-> "kernel.percpu.cpu.idle", val |-> 100]}

C13_Witness ==
  /\ call.op = "print" /\ call.a = "A_CPU"
  /\ EmittedFor(pmi_values, 1)
  /\ get_per_cpu_interval(buf, "A_CPU", curr, 1) = 0
  /\ Field(buf, "A_CPU", curr, 1, "cpu_user") > 0
  /\ [name |-> "kernel.percpu.cpu.idle", val |-> 100]
       \in PutFor(pmi_values, "cpu0")

\* C14: in the CPU writer the interval of CPU "all" comes from
\* get_global_cpu_statistics, the sum over the CPUs, exactly when the count
\* of records exceeds 1; with a count of 1 it is get_per_cpu_interval of the
\* current and previous record of CPU "all" (1 where that is 0).
C14_AllIntervalSource ==
  (call.op = "print" /\ call.a = "A_CPU")
    => /\ act["A_CPU"].nr_ini > 1
          <=> (/\ Len(call.events) = 1
               /\ call.events[1].field = "get_global_cpu_statistics")
       /\ (act["A_CPU"].nr_ini > 1 /\ 0 \in bitmap)
            => call.events[1].val =
                 Max({1, get_global_cpu_statistics(
                           buf, "A_CPU", curr, act["A_CPU"].nr_ini,
                           offline).deltot_jiffies})
       /\ (act["A_CPU"].nr_ini = 1 /\ 0 \in bitmap)
            => /\ Len(call.events) = 1
               /\ call.events[1].field = "get_per_cpu_interval"
               /\ call.events[1].val =
                    Max({1, get_per_cpu_interval(buf, "A_CPU", curr, 0)})

C14_Witness ==
  /\ call.op = "print" /\ call.a = "A_CPU"
  /\ act["A_CPU"].nr_ini = 1
  /\ 0 \in bitmap
  /\ call.events[1].field = "get_per_cpu_interval"
  /\ call.events[1].val > 1

\* The registrations of insts whose number an earlier registration in the
\* same instance domain gave to another label.
Conflicts(insts) ==
  {k \in DOMAIN insts :
     \E j \in 1..(k - 1) : /\ insts[j].indom = insts[k].indom
                           /\ insts[j].inst = insts[k].inst
                           /\ insts[j].name # insts[k].name}

\* C15: a definition routine that asks for an instance number which the
\* same domain already maps to another label, and runs to the end of its
\* requests, fails with ConflictingInstance, and the store does not take the
\* conflicting registration.
C15_ConflictingInstanceFails ==
  [][LET calls == Definitions(call'.a)
         asked == \E k \in DOMAIN calls : \E j \in 1..(k - 1) :
                    /\ calls[j].f = "act_add_instance"
                    /\ calls[k].f = "act_add_instance"
                    /\ calls[j].metric = calls[k].metric
                    /\ calls[j].inst = calls[k].inst
                    /\ calls[j].name # calls[k].name
     IN (call'.op = "define" /\ asked
           /\ call'.result \notin {"PANIC", "crash", "StoreUnavailable"})
          => (call'.result = "ConflictingInstance"
                /\ Conflicts(pmi_insts') = {})]_vars

\* C16: over a whole definition phase no instance domain receives two
\* registrations with the same number and different labels.
C16_OneLabelPerNumber == Conflicts(pmi_insts) = {}

C19_PressureStallDomain ==
  LET InDom(d) == {<<pmi_insts[k].inst, pmi_insts[k].name>> :
                     k \in {j \in DOMAIN pmi_insts : pmi_insts[j].indom = d}}
      Avg(a) == {metrics[a].descs[k] : k \in
                   {j \in DOMAIN metrics[a].descs :
                      metrics[a].descs[j].type = "PM_TYPE_FLOAT"}}
  IN (call.op = "define" /\ call.a \in {"A_PSI_CPU", "A_PSI_IO", "A_PSI_MEM"})
       => \A desc \in Avg(call.a) :
            InDom(desc.indom) = {<<10, "10 second">>, <<60, "1 minute">>,
                                 <<300, "5 minute">>}

\* C20: once the queue group has been through its definition, the instance
\* domain of the load average holds exactly (1, "1 minute"),
\* (5, "5 minute") and (15, "15 minute").
C20_LoadAverageDomain ==
  LET InDom(d) == {<<pmi_insts[k].inst, pmi_insts[k].name>> :
                     k \in {j \in DOMAIN pmi_insts : pmi_insts[j].indom = d}}
      loadavg == metrics["A_QUEUE"].descs[ENUM["KQUEUE_LOADAVG"] + 1]
  IN (call.op = "define" /\ call.a = "A_QUEUE")
       => InDom(loadavg.indom) = {<<1, "1 minute">>, <<5, "5 minute">>,
                                  <<15, "15 minute">>}

C20_Witness ==
  /\ call.op = "define" /\ call.a = "A_QUEUE"
  /\ \E k \in DOMAIN pmi_insts :
       pmi_insts[k].indom = PMI_INDOM(60, 2) /\ pmi_insts[k].inst = 15

\* C21: importing a value set of the load average, each value is written to
\* the field of its instance number alone (1, 5, 15), in the order of the
\* value set, and a value with any other instance number writes no field.
C21_LoadAverageRouting ==
  LET F(n) == CASE n = 1 -> "load_avg_1" [] n = 5 -> "load_avg_5"
                [] n = 15 -> "load_avg_15" [] OTHER -> ""
      routed == SelectSeq([k \in DOMAIN call.vlist |->
                             Write(F(call.vlist[k].inst))],
                          LAMBDA e : e.field # "")
  IN (/\ call.op = "pcp_read_stats" /\ call.pmid = PMI_ID(60, 2, 0)
      /\ call.numval >= 1 /\ call.result = "ok")
       => /\ call.reader = "pcp_read_kqueue_stats"
          /\ call.events = routed
          /\ \A k \in DOMAIN buf :
               \E j \in DOMAIN routed :
                 k = <<"A_QUEUE", curr, 0, routed[j].field>>

C21_Witness ==
  /\ call.op = "pcp_read_stats" /\ call.pmid = PMI_ID(60, 2, 0)
  /\ call.result = "ok" /\ call.numval = 2
  /\ call.vlist[1].inst = 2 /\ call.vlist[2].inst = 5
  /\ DOMAIN buf = {<<"A_QUEUE", curr, 0, "load_avg_5">>}

C23_EveryDescriptorEmitted ==
  [][LET a == "A_NET_SOFT"
         calls == Definitions(a)
         n == IF act[a].nr_ini < act[a].nr[curr + 1]
                THEN act[a].nr_ini ELSE act[a].nr[curr + 1]
         Has(name, label) ==
           \E v \in pmi_values' : v.name = name /\ v.inst = label
     IN (call'.op = "print" /\ call'.a = a)
          => \A k \in DOMAIN calls :
               calls[k].f = "act_add_metric"
                 => LET name == metrics[a].names[calls[k].metric + 1]
                        desc == metrics[a].descs[calls[k].metric + 1]
                    IN IF desc.indom = PM_INDOM_NULL
                         THEN (0 \in bitmap /\ n >= 1) => Has(name, NULL)
                         ELSE \A i \in 1..MaxCpu :
                                (i \in bitmap /\ i \notin offline /\ i < n)
                                  => Has(name, "cpu" \o ToString(i - 1))]_vars

\* C24: an identifier asked for with domain > 511, cluster > 4095 or
\* item > 1023 is refused with OutOfRange.
C24_OutOfRangeFails ==
  (/\ call.op = "PMI_ID"
   /\ \/ call.vlist[1] > 511 \/ call.vlist[2] > 4095 \/ call.vlist[3] > 1023)
    => call.result = "OutOfRange"

\* C25: for domain <= 511, cluster <= 4095 and item <= 1023 the identifier
\* is domain * 2^22 + cluster * 2^10 + item, and taking it apart again
\* (bits 22..30, bits 10..21, bits 0..9) gives back domain, cluster and
\* item.
C25_CodecRoundTrip ==
  LET decode(id) == << (id \div Pow2(22)) % Pow2(9),
                       (id \div Pow2(10)) % Pow2(12),
                       id % Pow2(10) >>
  IN (/\ call.op = "PMI_ID"
      /\ call.vlist[1] <= 511 /\ call.vlist[2] <= 4095
      /\ call.vlist[3] <= 1023)
       => /\ call.pmid = call.vlist[1] * Pow2(22) + call.vlist[2] * Pow2(10)
                           + call.vlist[3]
          /\ decode(call.pmid) = call.vlist

C25_Witness ==
  /\ call.op = "PMI_ID"
  /\ call.vlist = <<511, 4095, 1023>>
  /\ call.pmid \div Pow2(22) = 511

\* C26: every value that the CPU writer puts under an instance label, for a
\* sample with no more CPUs than at definition time, carries a label that
\* the definition of the group asked to register in the instance domain of
\* the descriptor of the metric the value is put under.
C26_EmittedLabelsRegistered ==
  [][LET a == "A_CPU"
         m == metrics[a]
         calls == Definitions(a)
         Registered(label, indom) ==
           \E k \in DOMAIN calls :
             /\ calls[k].f = "act_add_instance"
             /\ calls[k].name = label
             /\ calls[k].metric < m.count
             /\ m.descs[calls[k].metric + 1].indom = indom
     IN (/\ call'.op = "print" /\ call'.a = a
         /\ act[a].nr[curr + 1] <= act[a].nr_ini)
          => \A v \in pmi_values' :
               v.inst # NULL
                 => \A j \in DOMAIN m.names :
                      m.names[j] = v.name
                        => Registered(v.inst, m.descs[j].indom)]_vars

\* C27: every metric name under which the CPU writer puts a value is one
\* of the names of the CPU catalog, the names its definition registers.
C27_EmittedNamesInCatalog ==
  [][(call'.op = "print" /\ call'.a = "A_CPU")
       => \A v \in pmi_values' :
            \E j \in DOMAIN metrics["A_CPU"].names :
              /\ metrics["A_CPU"].names[j] = v.name
              /\ metrics["A_CPU"].names[j] # NULL_NAME]_vars

\* C28: every local index that a definition routine hands to act_add_metric
\* or act_add_instance is below the count of the catalog of the activity
\* the routine is called for.
C28_IndexWithinOwnCatalog ==
  [][LET calls == Definitions(call'.a)
     IN call'.op = "define"
          => \A k \in DOMAIN calls :
               calls[k].f \in {"act_add_metric", "act_add_instance"}
                 => calls[k].metric < metrics[call'.a].count]_vars

\* C29: a value set whose descriptor declares PM_TYPE_U64 is stored
\* unchanged on import: every field the reader writes holds one of the
\* values of the value set, also when the value is above the largest 32-bit
\* number.
C29_Unsigned64StoredUnchanged ==
  (/\ call.op = "pcp_read_stats" /\ call.a \in Activities
   /\ call.result = "ok" /\ call.numval >= 1
   /\ \E j \in DOMAIN metrics[call.a].descs :
        /\ metrics[call.a].descs[j].pmid = call.pmid
        /\ metrics[call.a].descs[j].type = "PM_TYPE_U64")
    => \A k \in DOMAIN call.events :
         call.events[k].e = "write"
           => \E n \in DOMAIN call.vlist :
                buf[<<call.a, curr, 0, call.events[k].field>>]
                  = call.vlist[n].value

\* C30: a load average or a pressure-stall average that is stored as v
\* hundredths and exported as the decimal v/100 is stored as v again when
\* the exported value is imported for the same instance.  (A value of a
\* floating-point metric is written in the archive as its hundredths.)
C30_HundredthsRoundTrip ==
  (/\ call.op = "pcp_read_stats" /\ call.result = "ok" /\ call.numval = 1
   /\ call.pmid \in {PMI_ID(60, 2, 0), PMI_ID(60, 83, 0), PMI_ID(60, 85, 0),
                     PMI_ID(60, 85, 2), PMI_ID(60, 84, 0), PMI_ID(60, 84, 2)}
   /\ Len(call.events) = 1)
    => buf[<<call.a, curr, 0, call.events[1].field>>] = call.vlist[1].value
=============================================================================
